---- MODULE Spec2Model ----
\* Model of the generic ordered map of nhAnik/ordered (ordered_map.go, the
\* version with GetOrDefault, ForEach and NewMapWithKVs).
\*
\* A Map is the pair of its two fields: the hash index `mp`, a Go map from K
\* to a pointer to valuePair[V], and the order list `items`, a pointer to a
\* list.List.  The list is modelled with its nodes: list.Element values are
\* addressed by small integers, 0 stands for the list's root sentinel and
\* for the nil element pointer.
EXTENDS Integers, Sequences, FiniteSets, TLC

\* ---------------------------------------------------------------- bounds
\* Keys are the integers 0..MaxKey (0 is the zero value of K).
MaxKey == 2
\* Values are the integers 0..MaxVal (0 is the zero value of V).
MaxVal == 1
\* Longest argument list given to NewMapWithKVs.
MaxKVs == 3
\* Largest capacity hint given to NewMapWithCapacity.
MaxCap == 1
\* Longest sequence of Put calls that is logged call by call.
MaxPuts == 3

K == 0..MaxKey
V == 0..MaxVal
KV == [Key : K, Value : V]

\* `var dummy V` / the elements of make([]K, n): the zero values.
ZeroV == 0
ZeroK == 0

\* list.Element addresses; 0 is nil / the root sentinel.
NumElems == MaxKey + 2
Elems == 1..NumElems

\* ------------------------------------------------- container/list as used
\* list.New(): an empty ring around the root, len 0.
ListNew ==
    [next  |-> [n \in 0..NumElems |-> 0],
     prev  |-> [n \in 0..NumElems |-> 0],
     value |-> [n \in Elems |-> ZeroK],
     list  |-> [n \in Elems |-> FALSE],
     len   |-> 0]

\* The address the allocator hands out for a new list.Element holding v: any
\* address no live element occupies.  Addresses are not observable, so the
\* choice is fixed: the cell v + 1 when it is free, else the lowest free one.
NewElem(l, v) ==
    IF ~l.list[v + 1] THEN v + 1
    ELSE CHOOSE n \in Elems : ~l.list[n] /\ \A m \in Elems : m < n => l.list[m]

\* l.PushBack(v): link a new element holding v before the root; returns the
\* list and the element.
ListPushBack(l, v) ==
    LET e    == NewElem(l, v)
        last == l.prev[0]
    IN [l |-> [next  |-> [l.next EXCEPT ![last] = e, ![e] = 0],
               prev  |-> [l.prev EXCEPT ![e] = last, ![0] = e],
               value |-> [l.value EXCEPT ![e] = v],
               list  |-> [l.list EXCEPT ![e] = TRUE],
               len   |-> l.len + 1],
        e |-> e]

\* l.Remove(e): unlink e if it is an element of l (e.list == l), else nothing.
\* The unlinked element is unreachable afterwards; its cell is cleared.
ListRemove(l, e) ==
    IF e \in Elems /\ l.list[e]
    THEN LET p == l.prev[e]
             n == l.next[e]
             nx == [l.next EXCEPT ![p] = n]
             pv == [l.prev EXCEPT ![n] = p]
         IN [next  |-> [nx EXCEPT ![e] = 0],
             prev  |-> [pv EXCEPT ![e] = 0],
             value |-> [l.value EXCEPT ![e] = ZeroK],
             list  |-> [l.list EXCEPT ![e] = FALSE],
             len   |-> l.len - 1]
    ELSE l

\* l.Front(): the first element, nil (0) for an empty list.
ListFront(l) == IF l.len = 0 THEN 0 ELSE l.next[0]

\* e.Next(): the element after e, nil (0) at the end of the list.
ElemNext(l, e) == IF l.list[e] THEN l.next[e] ELSE 0

\* l.Len()
ListLen(l) == l.len

\* ------------------------------------------------------------ the hash index
\* make(map[K]*valuePair[V])
MakeMp == [k \in {} |-> [elem |-> 0, value |-> ZeroV]]

\* o.mp[key] = &valuePair[V]{elem: e, value: value}
MpStore(mp, key, e, value) ==
    [k \in DOMAIN mp \cup {key} |->
        IF k = key THEN [elem |-> e, value |-> value] ELSE mp[k]]

\* delete(o.mp, key)
MpDelete(mp, key) == [k \in DOMAIN mp \ {key} |-> mp[k]]

\* ------------------------------------------------------------------ Map
NewMap == [mp |-> MakeMp, items |-> ListNew]

\* The capacity is a hint to make(); it is not observable afterwards.
NewMapWithCapacity(capacity) == [mp |-> MakeMp, items |-> ListNew]

\* Mutant: a Put of a present key moves the key to the back of the list.
Put_MoveToBack(o, key, value) ==
    IF key \notin DOMAIN o.mp
    THEN LET r == ListPushBack(o.items, key)
         IN [mp |-> MpStore(o.mp, key, r.e, value), items |-> r.l]
    ELSE LET r == ListPushBack(ListRemove(o.items, o.mp[key].elem), key)
         IN [mp |-> MpStore(o.mp, key, r.e, value), items |-> r.l]

\* Mutant: a Put of a present key keeps the value stored first.
Put_KeepFirst(o, key, value) ==
    IF key \notin DOMAIN o.mp
    THEN LET r == ListPushBack(o.items, key)
         IN [mp |-> MpStore(o.mp, key, r.e, value), items |-> r.l]
    ELSE o

\* Mutant: an absent key is linked in at the front of the list.
Put_AbsentFirst(o, key, value) ==
    IF key \notin DOMAIN o.mp
    THEN LET e     == NewElem(o.items, key)
             first == o.items.next[0]
             l     == o.items
         IN [mp    |-> MpStore(o.mp, key, e, value),
             items |-> [next  |-> [l.next EXCEPT ![0] = e, ![e] = first],
                        prev  |-> [l.prev EXCEPT ![first] = e, ![e] = 0],
                        value |-> [l.value EXCEPT ![e] = key],
                        list  |-> [l.list EXCEPT ![e] = TRUE],
                        len   |-> l.len + 1]]
    ELSE [mp |-> [o.mp EXCEPT ![key].value = value], items |-> o.items]

\* Mutant: a Put of a present key puts a new element in the place of the
\* old one's key: the new one is linked, the old one unlinked.
Put_NewToken(o, key, value) ==
    IF key \notin DOMAIN o.mp
    THEN LET r == ListPushBack(o.items, key)
         IN [mp |-> MpStore(o.mp, key, r.e, value), items |-> r.l]
    ELSE IF o.items.prev[0] # o.mp[key].elem THEN
         [mp |-> [o.mp EXCEPT ![key].value = value], items |-> o.items]
    ELSE LET r == ListPushBack(o.items, key)
         IN [mp    |-> MpStore(o.mp, key, r.e, value),
             items |-> ListRemove(r.l, o.mp[key].elem)]

Put(o, key, value) ==
    IF key \notin DOMAIN o.mp
    THEN LET r == ListPushBack(o.items, key)
         IN [mp |-> MpStore(o.mp, key, r.e, value), items |-> r.l]
    ELSE [mp |-> [o.mp EXCEPT ![key].value = value], items |-> o.items]

RECURSIVE PutRangeAbsent(_, _, _)
\* Mutant: the constructor skips a pair whose key it has already inserted.
PutRangeAbsent(om, kvs, i) ==
    IF i > Len(kvs) THEN om
    ELSE IF kvs[i].Key \in DOMAIN om.mp THEN PutRangeAbsent(om, kvs, i + 1)
    ELSE PutRangeAbsent(Put(om, kvs[i].Key, kvs[i].Value), kvs, i + 1)

NewMapWithKVs_FirstWins(kvs) ==
    PutRangeAbsent(NewMapWithCapacity(Len(kvs)), kvs, 1)

RECURSIVE PutRange(_, _, _)
\* for _, kv := range kvs { om.Put(kv.Key, kv.Value) }, from index i on
PutRange(om, kvs, i) ==
    IF i > Len(kvs) THEN om
    ELSE PutRange(Put(om, kvs[i].Key, kvs[i].Value), kvs, i + 1)

NewMapWithKVs(kvs) == PutRange(NewMapWithCapacity(Len(kvs)), kvs, 1)

\* Get returns the pair (value, found).
Get(o, key) ==
    IF key \in DOMAIN o.mp THEN <<o.mp[key].value, TRUE>> ELSE <<ZeroV, FALSE>>

\* Mutant: a stored zero value is taken for a missing key.
GetOrDefault_ZeroIsMissing(o, key, defaultValue) ==
    IF key \in DOMAIN o.mp /\ o.mp[key].value # ZeroV
    THEN o.mp[key].value ELSE defaultValue

GetOrDefault(o, key, defaultValue) ==
    IF key \in DOMAIN o.mp THEN o.mp[key].value ELSE defaultValue

ContainsKey(o, key) == key \in DOMAIN o.mp

\* Mutant: the list element is unlinked but the index entry is not deleted.
Remove_KeepIndex(o, key) ==
    IF key \in DOMAIN o.mp
    THEN [o   |-> [mp    |-> o.mp,
                   items |-> ListRemove(o.items, o.mp[key].elem)],
          ret |-> o.mp[key].value]
    ELSE [o |-> o, ret |-> ZeroV]

\* Mutant: for an absent key the last element of the list is unlinked.
Remove_AbsentUnlinksBack(o, key) ==
    IF key \in DOMAIN o.mp
    THEN [o   |-> [mp    |-> MpDelete(o.mp, key),
                   items |-> ListRemove(o.items, o.mp[key].elem)],
          ret |-> o.mp[key].value]
    ELSE [o   |-> [mp |-> o.mp, items |-> ListRemove(o.items, o.items.prev[0])],
          ret |-> ZeroV]

\* Remove returns the map after the call (o) and the returned value (ret).
Remove(o, key) ==
    IF key \in DOMAIN o.mp
    THEN [o   |-> [mp    |-> MpDelete(o.mp, key),
                   items |-> ListRemove(o.items, o.mp[key].elem)],
          ret |-> o.mp[key].value]
    ELSE [o |-> o, ret |-> ZeroV]

MapLen(o) == ListLen(o.items)

RECURSIVE KeysLoop(_, _, _, _)
\* for e := o.items.Front(); e != nil; e = e.Next() { keys[idx] = e.Value; idx++ }
KeysLoop(o, e, keys, idx) ==
    IF e = 0 THEN keys
    ELSE KeysLoop(o, ElemNext(o.items, e),
                  [keys EXCEPT ![idx + 1] = o.items.value[e]], idx + 1)

Keys(o) ==
    KeysLoop(o, ListFront(o.items), [i \in 1..ListLen(o.items) |-> ZeroK], 0)

RECURSIVE ValuesLoop(_, _, _, _)
\* values[idx] is written, and idx advanced, only for a key found in o.mp
ValuesLoop(o, e, values, idx) ==
    IF e = 0 THEN values
    ELSE LET key == o.items.value[e]
         IN IF key \in DOMAIN o.mp
            THEN ValuesLoop(o, ElemNext(o.items, e),
                            [values EXCEPT ![idx + 1] = o.mp[key].value], idx + 1)
            ELSE ValuesLoop(o, ElemNext(o.items, e), values, idx)

Values(o) ==
    ValuesLoop(o, ListFront(o.items), [i \in 1..ListLen(o.items) |-> ZeroV], 0)

RECURSIVE KeyValuesLoop(_, _, _, _)
KeyValuesLoop(o, e, kvs, idx) ==
    IF e = 0 THEN kvs
    ELSE LET key == o.items.value[e]
         IN IF key \in DOMAIN o.mp
            THEN KeyValuesLoop(o, ElemNext(o.items, e),
                               [kvs EXCEPT ![idx + 1] =
                                    [Key |-> key, Value |-> o.mp[key].value]],
                               idx + 1)
            ELSE KeyValuesLoop(o, ElemNext(o.items, e), kvs, idx)

KeyValues(o) ==
    KeyValuesLoop(o, ListFront(o.items),
                  [i \in 1..ListLen(o.items) |-> [Key |-> ZeroK, Value |-> ZeroV]], 0)

RECURSIVE ForEachLoop(_, _, _)
\* for _, kv := range o.KeyValues() { f(kv.Key, kv.Value) }; the visitor f
\* appends its arguments to the sequence `calls`.
ForEachLoop(kvs, i, calls) ==
    IF i > Len(kvs) THEN calls
    ELSE ForEachLoop(kvs, i + 1, Append(calls, <<kvs[i].Key, kvs[i].Value>>))

\* Mutant: the range over the pairs starts at the second one.
ForEach_SkipFirst(o) == ForEachLoop(KeyValues(o), 2, <<>>)

ForEach(o) == ForEachLoop(KeyValues(o), 1, <<>>)

IsEmpty(o) == Cardinality(DOMAIN o.mp) = 0

RECURSIVE ClearMp(_)
\* for k := range o.mp { delete(o.mp, k) }
ClearMp(mp) ==
    IF DOMAIN mp = {} THEN mp
    ELSE LET k == CHOOSE x \in DOMAIN mp : TRUE IN ClearMp(MpDelete(mp, k))

RECURSIVE ClearItems_NextAfterRemove(_, _)
\* Mutant: e.Next() is read after e was removed, when it is nil.
ClearItems_NextAfterRemove(l, e) ==
    IF e = 0 THEN l
    ELSE LET removed == ListRemove(l, e)
         IN ClearItems_NextAfterRemove(removed, ElemNext(removed, e))

RECURSIVE ClearItems(_, _)
\* for e := o.items.Front(); e != nil; e = next { next = e.Next(); o.items.Remove(e) }
ClearItems(l, e) ==
    IF e = 0 THEN l
    ELSE LET next == ElemNext(l, e) IN ClearItems(ListRemove(l, e), next)

\* Mutant: only the index is emptied, the order list is left as it is.
Clear_IndexOnly(o) == [mp |-> ClearMp(o.mp), items |-> o.items]

Clear(o) ==
    [mp |-> ClearMp(o.mp), items |-> ClearItems(o.items, ListFront(o.items))]

\* What a visitor does to the map it is visiting, in one call of it: nothing,
\* or one Put, Remove or Clear.
Visit(o, m) ==
    CASE m.op = "none"   -> o
      [] m.op = "Put"    -> Put(o, m.key, m.value)
      [] m.op = "Remove" -> Remove(o, m.key).o
      [] m.op = "Clear"  -> Clear(o)

\* The i-th call of the visitor f, a sequence of what its calls do.
VisitorCall(f, i) ==
    IF i \in DOMAIN f THEN f[i] ELSE [op |-> "none", key |-> ZeroK, value |-> ZeroV]

RECURSIVE ForEachVisitLoop_Live(_, _, _, _, _)
\* Mutant: every round of the loop reads the pairs from the map anew.
ForEachVisitLoop_Live(o, kvs, i, calls, f) ==
    IF i > Len(KeyValues(o)) THEN [o |-> o, calls |-> calls]
    ELSE ForEachVisitLoop_Live(Visit(o, VisitorCall(f, i)), kvs, i + 1,
                               Append(calls, <<KeyValues(o)[i].Key, KeyValues(o)[i].Value>>), f)

RECURSIVE ForEachVisitLoop(_, _, _, _, _)
\* for _, kv := range kvs { f(kv.Key, kv.Value) } with a visitor that appends
\* its arguments to `calls` and then does to the map o what f says.
ForEachVisitLoop(o, kvs, i, calls, f) ==
    IF i > Len(kvs) THEN [o |-> o, calls |-> calls]
    ELSE ForEachVisitLoop(Visit(o, VisitorCall(f, i)), kvs, i + 1,
                          Append(calls, <<kvs[i].Key, kvs[i].Value>>), f)

\* ForEach with such a visitor: o.KeyValues() is evaluated once, before the
\* first round.  Returns the map it leaves and the calls made.
ForEachVisit(o, f) == ForEachVisitLoop(o, KeyValues(o), 1, <<>>, f)

\* ------------------------------------------------ the ordered set (Set[T])
\* A Set is the struct of its one field, mp, a pointer to a Map[T, struct{}];
\* the set's elements are that map's keys.
\* `var dummy = struct{}{}`: the only value of the map's value type.
dummy == ZeroV

NewSet == [mp |-> NewMap]

\* Mutant: an element already in the set is moved to the back.
Add_MoveToBack(s, elem) == [mp |-> Put_MoveToBack(s.mp, elem, dummy)]

\* s.mp.Put(elem, dummy)
Add(s, elem) == [mp |-> Put(s.mp, elem, dummy)]

RECURSIVE AddRange(_, _, _)
\* for _, elem := range elems { s.Add(elem) }, from index i on.
AddRange(s, elems, i) ==
    IF i > Len(elems) THEN s ELSE AddRange(Add(s, elems[i]), elems, i + 1)

NewSetWithElems(elems) == AddRange(NewSet, elems, 1)

Contains(s, elem) == ContainsKey(s.mp, elem)

\* Mutant: the result says "removed" whether or not the element was there.
SetRemove_AlwaysTrue(s, elem) == [s |-> [mp |-> Remove(s.mp, elem).o], ret |-> TRUE]

\* Set.Remove: the set after the call and the returned boolean.
SetRemove(s, elem) ==
    IF ~Contains(s, elem) THEN [s |-> s, ret |-> FALSE]
    ELSE [s |-> [mp |-> Remove(s.mp, elem).o], ret |-> TRUE]

SetLen(s) == MapLen(s.mp)

Elements(s) == Keys(s.mp)

SetIsEmpty(s) == IsEmpty(s.mp)

SetClear(s) == [mp |-> Clear(s.mp)]

\* ------------------------------------------------ type arguments and values
\* Map and Set are generic.  The instantiations modelled are those of the
\* tests: string, int, point3d (a struct with MarshalText and UnmarshalText),
\* errKey (an empty struct whose MarshalText and UnmarshalText always fail)
\* and point (a struct of unexported fields, with no methods) for K and T;
\* int, string, any and struct{} (the value type under a Set) for V.
KTypes == {"string", "int", "point3d", "errKey", "point"}
VTypes == {"int", "string", "any", "struct{}"}

\* Types for which `any(k).(type)` matches encoding.TextMarshaler.
TextMarshalers == {"point3d", "errKey"}

\* The integer primitive types of the two type switches, as far as modelled.
IntTypes == {"int"}

\* A byte is a string of one character; a []byte or a Go string is a
\* sequence of them.  nil is the nil error.
nil == "nil"

\* A key k of the model stands for a value of type K.  Key 0 is K's zero
\* value; the strings include one holding a backslash and one holding a
\* double quote, the integers a negative one.
StringKey(k) ==
    CASE k = 0 -> <<>>
      [] k = 1 -> <<"/">>
      [] k = 2 -> <<"\\", "/">>
      [] OTHER -> <<"\"">> \o [i \in 1..(k - 3) |-> "a"]

IntKey(k) ==
    CASE k = 0 -> 0
      [] k = 1 -> 1
      [] k = 2 -> -3
      [] OTHER -> 10 * (k - 2)

GoKey(kt, k) ==
    CASE kt = "string"  -> [t |-> "string", s |-> StringKey(k)]
      [] kt = "int"     -> [t |-> "int", n |-> IntKey(k)]
      [] kt = "point3d" -> [t |-> "point3d", X |-> k, Y |-> 0, Z |-> 10 * k]
      [] kt = "errKey"  -> [t |-> "errKey"]
      [] kt = "point"   -> [t |-> "point", x |-> k, y |-> 0]

\* errKey is struct{}: it has the one value.
KeysOfType(kt) == IF kt = "errKey" THEN {ZeroK} ELSE K

\* A value v of the model stands for a value of type V.  Value 0 is V's zero
\* value; an `any` holds nil or a complex128.
StringVal(v) ==
    IF v = 0 THEN <<>> ELSE [i \in 1..(v - 1) |-> "b"] \o <<"\"">>

GoVal(vt, v) ==
    CASE vt = "int"      -> [t |-> "int", n |-> 10 * v]
      [] vt = "string"   -> [t |-> "string", s |-> StringVal(v)]
      [] vt = "any"      -> IF v = 0 THEN [t |-> "nil"]
                            ELSE [t |-> "complex128", re |-> v, im |-> v + 1]
      [] vt = "struct{}" -> [t |-> "struct{}"]

ValuesOfType(vt) == IF vt = "struct{}" THEN {dummy} ELSE V

\* The key / the value of the model a Go value stands for.
KeyIndex(kt, g) == CHOOSE k \in KeysOfType(kt) : GoKey(kt, k) = g
ValIndex(vt, g) == CHOOSE v \in ValuesOfType(vt) : GoVal(vt, v) = g

\* --------------------------------------------------- strconv, fmt, strings
Digit == <<"0", "1", "2", "3", "4", "5", "6", "7", "8", "9">>
DigitChars == {Digit[i] : i \in 1..10}
DigitValue(c) == (CHOOSE i \in 1..10 : Digit[i] = c) - 1

RECURSIVE Digits(_)
Digits(n) == IF n < 10 THEN <<Digit[n + 1]>> ELSE Digits(n \div 10) \o <<Digit[(n % 10) + 1]>>

\* The decimal text of an integer: fmt's %d, and json.Marshal of an integer.
IntText(n) == IF n < 0 THEN <<"-">> \o Digits(-n) ELSE Digits(n)

RECURSIVE DigitsValue(_)
DigitsValue(s) ==
    IF s = <<>> THEN 0
    ELSE 10 * DigitsValue(SubSeq(s, 1, Len(s) - 1)) + DigitValue(s[Len(s)])

\* strconv.Atoi: an optional sign and digits; 0 and an error for the rest.
Atoi(s) ==
    LET signed == s # <<>> /\ s[1] \in {"-", "+"}
        digits == IF signed THEN Tail(s) ELSE s
    IN IF digits = <<>> \/ \E i \in 1..Len(digits) : digits[i] \notin DigitChars
       THEN [n |-> 0, err |-> "strconv.Atoi: invalid syntax"]
       ELSE [n |-> IF signed /\ s[1] = "-" THEN -DigitsValue(digits) ELSE DigitsValue(digits),
             err |-> nil]

RECURSIVE Split(_, _)
\* strings.Split(s, sep) for a separator of one byte.
Split(s, sep) ==
    IF \A i \in 1..Len(s) : s[i] # sep THEN <<s>>
    ELSE LET i == CHOOSE j \in 1..Len(s) : s[j] = sep /\ \A h \in 1..(j - 1) : s[h] # sep
         IN <<SubSeq(s, 1, i - 1)>> \o Split(SubSeq(s, i + 1, Len(s)), sep)

\* fmt.Sprintf("\"%s\"", string(b))
Requote(b) == <<"\"">> \o b \o <<"\"">>

\* --------------------------------------- the key types' text conversions
\* MarshalText of point3d, Sprintf("%d-%d-%d"), and of errKey.
MarshalText(g) ==
    IF g.t = "point3d"
    THEN [b |-> IntText(g.X) \o <<"-">> \o IntText(g.Y) \o <<"-">> \o IntText(g.Z), err |-> nil]
    ELSE [b |-> <<>>, err |-> "error during marshalling"]

\* UnmarshalText of point3d, three numbers between dashes, and of errKey.
UnmarshalText(t, text) ==
    IF t = "point3d"
    THEN LET split == Split(text, "-")
         IN IF Len(split) # 3
            THEN [g |-> GoKey(t, ZeroK), err |-> "invalid text for point"]
            ELSE [g |-> [t |-> "point3d", X |-> Atoi(split[1]).n,
                         Y |-> Atoi(split[2]).n, Z |-> Atoi(split[3]).n],
                  err |-> nil]
    ELSE [g |-> GoKey(t, ZeroK), err |-> "error during unmarshalling"]

\* ------------------------------------------------ encoding/json as called
\* The escapes the model's texts contain: \" \\ and \/ (b, f, n, r, t and u
\* follow a backslash in no text of the model).
EscapeChars == {"\"", "\\", "/"}

RECURSIVE JsonEscape(_)
\* The body of a string literal as json.Marshal writes it: a double quote
\* and a backslash get a backslash in front.
JsonEscape(s) ==
    IF s = <<>> THEN <<>>
    ELSE (IF s[1] \in {"\"", "\\"} THEN <<"\\", s[1]>> ELSE <<s[1]>>) \o JsonEscape(Tail(s))

JsonString(s) == <<"\"">> \o JsonEscape(s) \o <<"\"">>

\* json.Marshal(v) for a value of one of the modelled types.
JsonMarshal(g) ==
    CASE g.t = "string"     -> [b |-> JsonString(g.s), err |-> nil]
      [] g.t = "int"        -> [b |-> IntText(g.n), err |-> nil]
      [] g.t \in TextMarshalers ->
            LET text == MarshalText(g)
            IN IF text.err # nil
               THEN [b |-> <<>>, err |-> "json: error calling MarshalText"]
               ELSE [b |-> JsonString(text.b), err |-> nil]
      [] g.t \in {"point", "struct{}"} -> [b |-> <<"{", "}">>, err |-> nil]
      [] g.t = "nil"        -> [b |-> <<"n", "u", "l", "l">>, err |-> nil]
      [] g.t = "complex128" -> [b |-> <<>>, err |-> "json: unsupported type: complex128"]

RECURSIVE ScanString(_, _, _)
\* Reads a string literal whose opening quote is at i - 1: the string it
\* denotes and the index after its closing quote; not ok when the literal is
\* not closed or holds a backslash no escape follows.
ScanString(data, i, acc) ==
    IF i > Len(data) THEN [ok |-> FALSE, s |-> acc, end |-> i]
    ELSE IF data[i] = "\"" THEN [ok |-> TRUE, s |-> acc, end |-> i + 1]
    ELSE IF data[i] = "\\"
         THEN IF i + 1 <= Len(data) /\ data[i + 1] \in EscapeChars
              THEN ScanString(data, i + 2, Append(acc, data[i + 1]))
              ELSE [ok |-> FALSE, s |-> acc, end |-> i]
    ELSE ScanString(data, i + 1, Append(acc, data[i]))

\* A JSON integer: an optional minus, then 0 or digits that start with 1..9.
IsNumber(data) ==
    LET digits == IF data # <<>> /\ data[1] = "-" THEN Tail(data) ELSE data
    IN /\ digits # <<>>
       /\ \A i \in 1..Len(digits) : digits[i] \in DigitChars
       /\ Len(digits) > 1 => digits[1] # "0"

\* What json.Unmarshal finds data to be: one string, number, null or empty
\* object and nothing else, or invalid.  (Of the objects only {} is modelled.)
JsonLiteral(data) ==
    IF data # <<>> /\ data[1] = "\""
    THEN LET r == ScanString(data, 2, <<>>)
         IN IF r.ok /\ r.end = Len(data) + 1 THEN [kind |-> "string", s |-> r.s]
            ELSE [kind |-> "invalid"]
    ELSE IF IsNumber(data) THEN [kind |-> "number", n |-> Atoi(data).n]
    ELSE IF data = <<"n", "u", "l", "l">> THEN [kind |-> "null"]
    ELSE IF data = <<"{", "}">> THEN [kind |-> "object"]
    ELSE [kind |-> "invalid"]

\* json.Unmarshal(data, &x) for x the zero value `zero` of type t: the value
\* x holds afterwards and the error.  A string literal goes to a string or
\* through UnmarshalText, a number to an integer, {} to a struct without
\* UnmarshalText; an `any` takes them all; null leaves x as it is.
JsonUnmarshal(data, t, zero) ==
    LET lit == JsonLiteral(data)
        mismatch == [g |-> zero, err |-> "json: cannot unmarshal into Go value"]
    IN CASE lit.kind = "invalid" -> [g |-> zero, err |-> "json: syntax error"]
         [] lit.kind = "null"    -> [g |-> zero, err |-> nil]
         [] lit.kind = "string"  ->
               IF t \in {"string", "any"} THEN [g |-> [t |-> "string", s |-> lit.s], err |-> nil]
               ELSE IF t \in TextMarshalers THEN UnmarshalText(t, lit.s)
               ELSE mismatch
         [] lit.kind = "number"  ->
               IF t \in IntTypes THEN [g |-> [t |-> "int", n |-> lit.n], err |-> nil]
               ELSE IF t = "any" THEN [g |-> [t |-> "float64", n |-> lit.n], err |-> nil]
               ELSE mismatch
         [] lit.kind = "object"  ->
               IF t \in {"point", "struct{}"} THEN [g |-> zero, err |-> nil]
               ELSE IF t = "any" THEN [g |-> [t |-> "map[string]any"], err |-> nil]
               ELSE mismatch

\* ------------------------------------------------- jsonparser as called
Whitespace == {" "}

\* nextToken: the index of the first byte at or after i that is no
\* whitespace, 0 when there is none.
NextToken(data, i) ==
    LET I == {j \in i..Len(data) : data[j] \notin Whitespace}
    IN IF I = {} THEN 0 ELSE CHOOSE j \in I : \A h \in I : j <= h

RECURSIVE StringEnd(_, _, _)
\* stringEnd: the index after the quote that closes the string whose body
\* starts at i, and whether the body holds a backslash; end 0 when no quote
\* closes it.
StringEnd(data, i, escaped) ==
    IF i > Len(data) THEN [end |-> 0, escaped |-> escaped]
    ELSE IF data[i] = "\"" THEN [end |-> i + 1, escaped |-> escaped]
    ELSE IF data[i] = "\\" THEN StringEnd(data, i + 2, TRUE)
    ELSE StringEnd(data, i + 1, escaped)

RECURSIVE Unescape(_)
\* Unescape: the bytes a string body denotes; not ok on a backslash no
\* escape follows.
Unescape(in) ==
    IF in = <<>> THEN [ok |-> TRUE, b |-> <<>>]
    ELSE IF in[1] = "\\"
         THEN IF Len(in) >= 2 /\ in[2] \in EscapeChars
              THEN LET r == Unescape(SubSeq(in, 3, Len(in)))
                   IN [ok |-> r.ok, b |-> <<in[2]>> \o r.b]
              ELSE [ok |-> FALSE, b |-> <<>>]
    ELSE LET r == Unescape(Tail(in)) IN [ok |-> r.ok, b |-> <<in[1]>> \o r.b]

RECURSIVE BlockEnd(_, _, _, _, _)
\* blockEnd: the index after the closeSym that closes the block opened at
\* the first openSym at or after i, strings skipped; 0 when it is not closed.
BlockEnd(data, i, openSym, closeSym, level) ==
    IF i > Len(data) THEN 0
    ELSE IF data[i] = "\""
         THEN LET se == StringEnd(data, i + 1, FALSE)
              IN IF se.end = 0 THEN 0 ELSE BlockEnd(data, se.end, openSym, closeSym, level)
    ELSE IF data[i] = openSym THEN BlockEnd(data, i + 1, openSym, closeSym, level + 1)
    ELSE IF data[i] = closeSym
         THEN IF level - 1 = 0 THEN i + 1
              ELSE BlockEnd(data, i + 1, openSym, closeSym, level - 1)
    ELSE BlockEnd(data, i + 1, openSym, closeSym, level)

\* tokenEnd: the index of the first delimiter at or after i, or the end.
TokenEnd(data, i) ==
    LET I == {j \in i..Len(data) : data[j] \in Whitespace \cup {",", "}", "]"}}
    IN IF I = {} THEN Len(data) + 1 ELSE CHOOSE j \in I : \A h \in I : j <= h

\* Get on the value that starts at i: its bytes (a string's without the
\* quotes, escapes as they are), its type, the index after it, the error.
GetValue(data, i) ==
    LET bad(e) == [value |-> <<>>, dataType |-> "NotExist", end |-> i, err |-> e]
    IN IF i > Len(data) THEN bad("Key path not found")
       ELSE IF data[i] = "\""
            THEN LET se == StringEnd(data, i + 1, FALSE)
                 IN IF se.end = 0 THEN bad("Value is string, but can't find closing '\"' symbol")
                    ELSE [value |-> SubSeq(data, i + 1, se.end - 2), dataType |-> "String",
                          end |-> se.end, err |-> nil]
       ELSE IF data[i] \in {"[", "{"}
            THEN LET array == data[i] = "["
                     be == BlockEnd(data, i, data[i], IF array THEN "]" ELSE "}", 0)
                 IN IF be = 0
                    THEN bad(IF array THEN "Value is array, but can't find closing ']' symbol"
                             ELSE "Value looks like object, but can't find closing '}' symbol")
                    ELSE [value |-> SubSeq(data, i, be - 1),
                          dataType |-> IF array THEN "Array" ELSE "Object",
                          end |-> be, err |-> nil]
       ELSE LET end == TokenEnd(data, i)
                value == SubSeq(data, i, end - 1)
            IN IF data[i] \in DigitChars \cup {"-"}
               THEN [value |-> value, dataType |-> "Number", end |-> end, err |-> nil]
               ELSE IF value = <<"n", "u", "l", "l">>
               THEN [value |-> value, dataType |-> "Null", end |-> end, err |-> nil]
               ELSE bad("Unknown value type")

RECURSIVE ObjectMembers(_, _, _)
\* ObjectEach from the member that should start at offset on: the members
\* the callback is called with, in order, and the error ObjectEach itself
\* ends with after them (nil at the closing brace).  The callback's own
\* errors are the caller's: ObjectEach returns the first of them at once.
ObjectMembers(data, offset, found) ==
    LET stop(e) == [members |-> found, err |-> e]
    IN IF offset > Len(data) THEN stop("Value looks like object, but can't find closing '}' symbol")
       ELSE IF data[offset] = "}" THEN stop(nil)
       ELSE IF data[offset] # "\"" THEN stop("Value looks like object, but can't find closing '}' symbol")
       ELSE LET se == StringEnd(data, offset + 1, FALSE)
            IN IF se.end = 0 THEN stop("Malformed JSON error")
               ELSE
       LET raw   == SubSeq(data, offset + 1, se.end - 2)
           un    == IF se.escaped THEN Unescape(raw) ELSE [ok |-> TRUE, b |-> raw]
           colon == NextToken(data, se.end)
       IN IF ~un.ok THEN stop("Encountered an invalid escape sequence in a string")
          ELSE IF colon = 0 \/ data[colon] # ":" THEN stop("Malformed JSON error")
          ELSE
       LET v == GetValue(data, NextToken(data, colon + 1))
       IN IF NextToken(data, colon + 1) = 0 THEN stop("Key path not found")
          ELSE IF v.err # nil THEN stop(v.err)
          ELSE
       LET more == Append(found, [key |-> un.b, value |-> v.value, dataType |-> v.dataType])
           sep  == NextToken(data, v.end)
       IN IF sep = 0 THEN [members |-> more, err |-> "Value is array, but can't find closing ']' symbol"]
          ELSE IF data[sep] = "}" THEN [members |-> more, err |-> nil]
          ELSE IF data[sep] # "," THEN [members |-> more, err |-> "Value looks like object, but can't find closing '}' symbol"]
          ELSE IF NextToken(data, sep + 1) = 0
               THEN [members |-> more, err |-> "Value is array, but can't find closing ']' symbol"]
          ELSE ObjectMembers(data, NextToken(data, sep + 1), more)

\* ObjectEach(data, callback): the head of the object, then its members.
ObjectEach(data) ==
    LET open == NextToken(data, 1)
    IN IF open = 0 \/ data[open] # "{"
       THEN [members |-> <<>>, err |-> "Value looks like object, but can't find closing '}' symbol"]
       ELSE IF NextToken(data, open + 1) = 0
       THEN [members |-> <<>>, err |-> "Malformed JSON error"]
       ELSE ObjectMembers(data, NextToken(data, open + 1), <<>>)

\* --------------------------------------------- the textual codec of Map
\* An encode call returns [b, err]: the bytes, or no bytes and the error.
RECURSIVE MarshalJSONLoop_IntKeysBare(_, _, _, _, _)
MarshalJSONLoop_IntKeysBare(kvs, idx, buf, kt, vt) ==
    IF idx > Len(kvs) THEN [b |-> Append(buf, "}"), err |-> nil]
    ELSE LET comma    == IF idx > 1 THEN Append(buf, ",") ELSE buf
             keyBytes == JsonMarshal(GoKey(kt, kvs[idx].Key))
             valBytes == JsonMarshal(GoVal(vt, kvs[idx].Value))
         IN IF kt \notin {"string"} \cup TextMarshalers \cup IntTypes
            THEN [b |-> <<>>, err |-> "invalid key type"]
            ELSE IF keyBytes.err # nil THEN [b |-> <<>>, err |-> keyBytes.err]
            ELSE IF valBytes.err # nil THEN [b |-> <<>>, err |-> valBytes.err]
            ELSE MarshalJSONLoop_IntKeysBare(kvs, idx + 1,
                     comma \o keyBytes.b \o <<":">> \o valBytes.b, kt, vt)

\* Mutant: an integer key is written as json.Marshal gives it, in the case
\* of the string keys, with no quotes around it.
MarshalJSON_IntKeysBare(o, kt, vt) ==
    MarshalJSONLoop_IntKeysBare(KeyValues(o), 1, <<"{">>, kt, vt)

RECURSIVE MarshalJSONLoop_CommaFirst(_, _, _, _, _)
MarshalJSONLoop_CommaFirst(kvs, idx, buf, kt, vt) ==
    IF idx > Len(kvs) THEN [b |-> Append(buf, "}"), err |-> nil]
    ELSE LET comma    == Append(buf, ",")
             keyBytes == JsonMarshal(GoKey(kt, kvs[idx].Key))
             valBytes == JsonMarshal(GoVal(vt, kvs[idx].Value))
             key      == IF kt \in IntTypes THEN Requote(keyBytes.b) ELSE keyBytes.b
         IN IF kt \notin {"string"} \cup TextMarshalers \cup IntTypes
            THEN [b |-> <<>>, err |-> "invalid key type"]
            ELSE IF keyBytes.err # nil THEN [b |-> <<>>, err |-> keyBytes.err]
            ELSE IF valBytes.err # nil THEN [b |-> <<>>, err |-> valBytes.err]
            ELSE MarshalJSONLoop_CommaFirst(kvs, idx + 1,
                     comma \o key \o <<":">> \o valBytes.b, kt, vt)

\* Mutant: the comma is written before every entry, the first included.
MarshalJSON_CommaFirst(o, kt, vt) ==
    MarshalJSONLoop_CommaFirst(KeyValues(o), 1, <<"{">>, kt, vt)

RECURSIVE MarshalJSONLoop_PartialOnError(_, _, _, _, _)
MarshalJSONLoop_PartialOnError(kvs, idx, buf, kt, vt) ==
    IF idx > Len(kvs) THEN [b |-> Append(buf, "}"), err |-> nil]
    ELSE LET comma    == IF idx > 1 THEN Append(buf, ",") ELSE buf
             keyBytes == JsonMarshal(GoKey(kt, kvs[idx].Key))
             valBytes == JsonMarshal(GoVal(vt, kvs[idx].Value))
             key      == IF kt \in IntTypes THEN Requote(keyBytes.b) ELSE keyBytes.b
         IN IF kt \notin {"string"} \cup TextMarshalers \cup IntTypes
            THEN [b |-> <<>>, err |-> "invalid key type"]
            ELSE IF keyBytes.err # nil THEN [b |-> <<>>, err |-> keyBytes.err]
            ELSE IF valBytes.err # nil
                 THEN [b |-> comma \o key \o <<":">>, err |-> valBytes.err]
            ELSE MarshalJSONLoop_PartialOnError(kvs, idx + 1,
                     comma \o key \o <<":">> \o valBytes.b, kt, vt)

\* Mutant: when a value fails to encode, what the buffer holds so far is
\* returned with the error.
MarshalJSON_PartialOnError(o, kt, vt) ==
    MarshalJSONLoop_PartialOnError(KeyValues(o), 1, <<"{">>, kt, vt)

RECURSIVE MarshalJSONLoop(_, _, _, _, _)
\* for idx, kv := range o.KeyValues() { ... }: the entry idx and the ones
\* after it are appended to buf, then the closing brace.
MarshalJSONLoop(kvs, idx, buf, kt, vt) ==
    IF idx > Len(kvs) THEN [b |-> Append(buf, "}"), err |-> nil]
    ELSE LET comma    == IF idx > 1 THEN Append(buf, ",") ELSE buf
             keyBytes == JsonMarshal(GoKey(kt, kvs[idx].Key))
             valBytes == JsonMarshal(GoVal(vt, kvs[idx].Value))
         IN IF kt = "string" \/ kt \in TextMarshalers
            THEN IF keyBytes.err # nil THEN [b |-> <<>>, err |-> keyBytes.err]
                 ELSE IF valBytes.err # nil THEN [b |-> <<>>, err |-> valBytes.err]
                 ELSE MarshalJSONLoop(kvs, idx + 1,
                          comma \o keyBytes.b \o <<":">> \o valBytes.b, kt, vt)
            ELSE IF kt \in IntTypes
            THEN IF valBytes.err # nil THEN [b |-> <<>>, err |-> valBytes.err]
                 ELSE MarshalJSONLoop(kvs, idx + 1,
                          comma \o Requote(keyBytes.b) \o <<":">> \o valBytes.b, kt, vt)
            ELSE [b |-> <<>>, err |-> "invalid key type"]

\* Map.MarshalJSON for a Map[kt, vt].
MarshalJSON(o, kt, vt) == MarshalJSONLoop(KeyValues(o), 1, <<"{">>, kt, vt)

\* fmt.Sprint(v), the %v format of one operand: an integer in decimal, a
\* string as it is, a struct as its fields between braces, a nil interface
\* as <nil>, a complex number as (re+imi).  None of the types has a String,
\* Error or Format method.
Sprint(g) ==
    CASE g.t = "int"        -> IntText(g.n)
      [] g.t = "string"     -> g.s
      [] g.t = "point3d"    -> <<"{">> \o IntText(g.X) \o <<" ">> \o IntText(g.Y)
                               \o <<" ">> \o IntText(g.Z) \o <<"}">>
      [] g.t = "point"      -> <<"{">> \o IntText(g.x) \o <<" ">> \o IntText(g.y) \o <<"}">>
      [] g.t = "errKey"     -> <<"{", "}">>
      [] g.t = "struct{}"   -> <<"{", "}">>
      [] g.t = "nil"        -> <<"<", "n", "i", "l", ">">>
      [] g.t = "complex128" -> <<"(">> \o IntText(g.re) \o <<"+">> \o IntText(g.im)
                               \o <<"i", ")">>

RECURSIVE StringLoop_SpaceAfter(_, _, _, _, _)
\* Mutant: the space is written after every pair.
StringLoop_SpaceAfter(kvs, idx, sb, kt, vt) ==
    IF idx > Len(kvs) THEN sb
    ELSE StringLoop_SpaceAfter(kvs, idx + 1,
                    sb \o Sprint(GoKey(kt, kvs[idx].Key)) \o <<":">>
                       \o Sprint(GoVal(vt, kvs[idx].Value)) \o <<" ">>,
                    kt, vt)

RECURSIVE StringLoop(_, _, _, _, _)
\* for idx, kv := range o.KeyValues() { ... }, from index idx on (from 1 here)
StringLoop(kvs, idx, sb, kt, vt) ==
    IF idx > Len(kvs) THEN sb
    ELSE StringLoop(kvs, idx + 1,
                    (IF idx > 1 THEN sb \o <<" ">> ELSE sb)
                       \o Sprint(GoKey(kt, kvs[idx].Key)) \o <<":">>
                       \o Sprint(GoVal(vt, kvs[idx].Value)),
                    kt, vt)

\* Map.String
String(o, kt, vt) ==
    StringLoop(KeyValues(o), 1, <<"m", "a", "p", "{">>, kt, vt) \o <<"}">>

RECURSIVE SetStringLoop(_, _, _, _)
\* for idx, elem := range s.Elements() { ... }, from index idx on
SetStringLoop(elems, idx, sb, t) ==
    IF idx > Len(elems) THEN sb
    ELSE SetStringLoop(elems, idx + 1,
                       (IF idx > 1 THEN sb \o <<" ">> ELSE sb)
                          \o Sprint(GoKey(t, elems[idx])),
                       t)

\* Set.String
SetString(s, t) ==
    SetStringLoop(Elements(s), 1, <<"s", "e", "t", "{">>, t) \o <<"}">>


\* A Map whose fields were never set (`var m Map[K, V]`): both are nil.
\* The nil index is the one whose only key is no key of K.
NilList == [nil |-> TRUE]
NilMp == [k \in {-1} |-> [elem |-> 0, value |-> ZeroV]]
ZeroMap == [mp |-> NilMp, items |-> NilList]

\* Mutant: of the two fields only the order list is created.
LazyInit_ItemsOnly(o) ==
    IF "nil" \in DOMAIN o.items \/ -1 \in DOMAIN o.mp THEN [mp |-> o.mp, items |-> ListNew]
    ELSE o

\* Mutant: the index and the order list are made anew in every call.
LazyInit_Always(o) == [mp |-> MakeMp, items |-> ListNew]

\* if o.items == nil || o.mp == nil { o.mp = make(...); o.items = list.New() }
LazyInit(o) ==
    IF "nil" \in DOMAIN o.items \/ -1 \in DOMAIN o.mp THEN [mp |-> MakeMp, items |-> ListNew]
    ELSE o

\* The callback UnmarshalJSON gives to ObjectEach, called for one member:
\* the map afterwards and the error returned.
UnmarshalJSONMember(o, m, kt, vt) ==
    LET k == JsonUnmarshal(Requote(m.key), kt, GoKey(kt, ZeroK))
        valBytes == IF m.dataType = "String" THEN Requote(m.value) ELSE m.value
        v == JsonUnmarshal(valBytes, vt, GoVal(vt, ZeroV))
    IN IF kt \notin {"string"} \cup IntTypes \cup TextMarshalers
       THEN [o |-> o, err |-> "invalid key type"]
       ELSE IF k.err # nil THEN [o |-> o, err |-> k.err]
       ELSE IF v.err # nil THEN [o |-> o, err |-> v.err]
       ELSE [o |-> Put(o, KeyIndex(kt, k.g), ValIndex(vt, v.g)), err |-> nil]

RECURSIVE UnmarshalJSONEach_Continue(_, _, _, _, _)
\* Mutant: the members after a failing one are decoded and put as well.
UnmarshalJSONEach_Continue(o, members, i, kt, vt) ==
    IF i > Len(members) THEN [o |-> o, err |-> nil]
    ELSE LET r    == UnmarshalJSONMember(o, members[i], kt, vt)
             rest == UnmarshalJSONEach_Continue(r.o, members, i + 1, kt, vt)
         IN IF r.err # nil THEN [o |-> rest.o, err |-> r.err] ELSE rest

RECURSIVE UnmarshalJSONEach(_, _, _, _, _)
\* The callback called for the members from the i-th on, until one fails.
UnmarshalJSONEach(o, members, i, kt, vt) ==
    IF i > Len(members) THEN [o |-> o, err |-> nil]
    ELSE LET r == UnmarshalJSONMember(o, members[i], kt, vt)
         IN IF r.err # nil THEN r ELSE UnmarshalJSONEach(r.o, members, i + 1, kt, vt)

\* Map.UnmarshalJSON(b) on the Map[kt, vt] o: the map afterwards and the
\* error returned, the callback's if it returned one, else ObjectEach's own.
UnmarshalJSON(o, b, kt, vt) ==
    LET parsed == ObjectEach(b)
        r == UnmarshalJSONEach(LazyInit(o), parsed.members, 1, kt, vt)
    IN IF r.err # nil THEN r ELSE [o |-> r.o, err |-> parsed.err]

\* --------------------------------------------- the textual codec of Set
RECURSIVE SetMarshalJSONLoop(_, _, _, _)
\* for idx, elem := range s.Elements() { ... }
SetMarshalJSONLoop(elems, idx, buf, t) ==
    IF idx > Len(elems) THEN [b |-> Append(buf, "]"), err |-> nil]
    ELSE LET comma == IF idx > 1 THEN Append(buf, ",") ELSE buf
             bytes == JsonMarshal(GoKey(t, elems[idx]))
         IN IF bytes.err # nil THEN [b |-> <<>>, err |-> bytes.err]
            ELSE SetMarshalJSONLoop(elems, idx + 1, comma \o bytes.b, t)

\* Set.MarshalJSON for a Set[t].
SetMarshalJSON(s, t) == SetMarshalJSONLoop(Elements(s), 1, <<"[">>, t)

RECURSIVE ArrayValues(_, _, _)
\* The loop of ArrayEach from the element that should start at offset on:
\* the elements the callback is called with, in order, and the error
\* ArrayEach ends with after them (nil at the closing bracket).
ArrayValues(data, offset, found) ==
    LET start == NextToken(data, offset)
    IN IF start = 0 THEN [values |-> found, err |-> "Malformed JSON error"]
       ELSE
       LET v == GetValue(data, start)
       IN IF v.err # nil THEN [values |-> found, err |-> v.err]
          ELSE
       LET more == Append(found, [value |-> v.value, dataType |-> v.dataType])
           sep  == NextToken(data, v.end)
       IN IF sep = 0
          THEN [values |-> more, err |-> "Value is array, but can't find closing ']' symbol"]
          ELSE IF data[sep] = "]" THEN [values |-> more, err |-> nil]
          ELSE IF data[sep] # ","
          THEN [values |-> more, err |-> "Value is array, but can't find closing ']' symbol"]
          ELSE ArrayValues(data, sep + 1, more)

\* ArrayEach(data, cb): the first token is stepped over, then the elements
\* up to the closing bracket.
ArrayEach(data) ==
    LET open == NextToken(data, 1)
    IN IF Len(data) = 0
       THEN [values |-> <<>>, err |-> "Value looks like object, but can't find closing '}' symbol"]
       ELSE IF open = 0 \/ NextToken(data, open + 1) = 0
       THEN [values |-> <<>>, err |-> "Malformed JSON error"]
       ELSE IF data[NextToken(data, open + 1)] = "]" THEN [values |-> <<>>, err |-> nil]
       ELSE ArrayValues(data, open + 1, <<>>)

\* A Set whose mp field was never set (`var s Set[T]`): the nil pointer.
NilMap == [nil |-> TRUE]
ZeroSet == [mp |-> NilMap]

\* Mutant: an element that decodes clears the mark an earlier one left.
SetUnmarshalJSONElem_LastWins(s, m, t, unmarshalErrExists) ==
    LET elemBytes == IF m.dataType = "String" THEN Requote(m.value) ELSE m.value
        elem == JsonUnmarshal(elemBytes, t, GoKey(t, ZeroK))
    IN IF elem.err # nil THEN [s |-> s, unmarshalErrExists |-> TRUE]
       ELSE [s |-> Add(s, KeyIndex(t, elem.g)), unmarshalErrExists |-> FALSE]

\* The callback UnmarshalJSON gives to ArrayEach, called for one element:
\* the set afterwards and unmarshalErrExists.
SetUnmarshalJSONElem(s, m, t, unmarshalErrExists) ==
    LET elemBytes == IF m.dataType = "String" THEN Requote(m.value) ELSE m.value
        elem == JsonUnmarshal(elemBytes, t, GoKey(t, ZeroK))
    IN IF elem.err # nil THEN [s |-> s, unmarshalErrExists |-> TRUE]
       ELSE [s |-> Add(s, KeyIndex(t, elem.g)), unmarshalErrExists |-> unmarshalErrExists]

RECURSIVE SetUnmarshalJSONEach_StopAtFirst(_, _, _, _, _)
\* Mutant: no element after one that did not decode is decoded.
SetUnmarshalJSONEach_StopAtFirst(s, values, i, t, unmarshalErrExists) ==
    IF i > Len(values) \/ unmarshalErrExists
    THEN [s |-> s, unmarshalErrExists |-> unmarshalErrExists]
    ELSE LET r == SetUnmarshalJSONElem(s, values[i], t, unmarshalErrExists)
         IN SetUnmarshalJSONEach_StopAtFirst(r.s, values, i + 1, t, r.unmarshalErrExists)

RECURSIVE SetUnmarshalJSONEach(_, _, _, _, _)
\* The callback called for the elements from the i-th on, every one of them.
SetUnmarshalJSONEach(s, values, i, t, unmarshalErrExists) ==
    IF i > Len(values) THEN [s |-> s, unmarshalErrExists |-> unmarshalErrExists]
    ELSE LET r == SetUnmarshalJSONElem(s, values[i], t, unmarshalErrExists)
         IN SetUnmarshalJSONEach(r.s, values, i + 1, t, r.unmarshalErrExists)

\* Set.UnmarshalJSON(b) on the Set[t] s: the set afterwards and the error
\* returned, ArrayEach's if it returned one, else "unmarshalling error" if an
\* element did not decode.
SetUnmarshalJSON(s, b, t) ==
    LET made   == IF s.mp = NilMap THEN [mp |-> NewMap] ELSE s
        parsed == ArrayEach(b)
        r      == SetUnmarshalJSONEach(made, parsed.values, 1, t, FALSE)
    IN [s   |-> r.s,
        err |-> IF parsed.err # nil THEN parsed.err
                ELSE IF r.unmarshalErrExists THEN "unmarshalling error"
                ELSE nil]

\* ------------------------------------------------- encoding/gob as called
\* A gob stream is the sequence of the values encoded into it, each with
\* the type it was sent as.  A struct with no exported field (point, errKey,
\* struct{}, and Set, whose one field is mp) and a nil interface cannot be
\* sent.
GobEncodable(g) == g.t \notin {"point", "errKey", "struct{}", "nil", "Set"}

\* A Set as a value given to gob: Set has no GobEncode method.
GoSet(s) == [t |-> "Set", mp |-> s.mp]

\* enc.Encode(v): the stream afterwards and the error.
Encode(stream, g) ==
    IF GobEncodable(g) THEN [b |-> Append(stream, [t |-> g.t, g |-> g]), err |-> nil]
    ELSE [b |-> stream, err |-> "gob: type cannot be encoded"]

\* dec.Decode(&x) for x the zero value `zero` of type t: x afterwards, the
\* rest of the stream, the error.  The next value must have been sent as a
\* t; an interface variable takes no value sent as a concrete type.
Decode(stream, t, zero) ==
    IF stream = <<>> THEN [g |-> zero, rest |-> stream, err |-> "EOF"]
    ELSE IF Head(stream).t # t
         THEN [g |-> zero, rest |-> Tail(stream), err |-> "gob: type mismatch"]
    ELSE [g |-> Head(stream).g, rest |-> Tail(stream), err |-> nil]

\* --------------------------------------------- the binary codec of Map
RECURSIVE GobEncodeLoop(_, _, _, _, _)
\* for _, kv := range o.KeyValues() { enc.Encode(kv.Key); enc.Encode(kv.Value) }
GobEncodeLoop(kvs, idx, buf, kt, vt) ==
    IF idx > Len(kvs) THEN [b |-> buf, err |-> nil]
    ELSE LET key == Encode(buf, GoKey(kt, kvs[idx].Key))
             val == Encode(key.b, GoVal(vt, kvs[idx].Value))
         IN IF key.err # nil THEN [b |-> <<>>, err |-> key.err]
            ELSE IF val.err # nil THEN [b |-> <<>>, err |-> val.err]
            ELSE GobEncodeLoop(kvs, idx + 1, val.b, kt, vt)

\* Mutant: the length written first is one more than Len().
GobEncode_LenOneMore(o, kt, vt) ==
    GobEncodeLoop(KeyValues(o), 1, Encode(<<>>, [t |-> "int", n |-> MapLen(o) + 1]).b, kt, vt)

\* Map.GobEncode: Len() first (the error of that Encode is dropped), then
\* the pairs.
GobEncode(o, kt, vt) ==
    GobEncodeLoop(KeyValues(o), 1, Encode(<<>>, [t |-> "int", n |-> MapLen(o)]).b, kt, vt)

RECURSIVE GobDecodeLoop(_, _, _, _, _, _)
\* for i := 0; i < len; i++ { dec.Decode(&k); dec.Decode(&v); o.Put(k, v) }
GobDecodeLoop(o, stream, i, len, kt, vt) ==
    IF i >= len THEN [o |-> o, err |-> nil]
    ELSE LET k == Decode(stream, kt, GoKey(kt, ZeroK))
             v == Decode(k.rest, vt, GoVal(vt, ZeroV))
         IN IF k.err # nil THEN [o |-> o, err |-> k.err]
            ELSE IF v.err # nil THEN [o |-> o, err |-> v.err]
            ELSE GobDecodeLoop(Put(o, KeyIndex(kt, k.g), ValIndex(vt, v.g)),
                               v.rest, i + 1, len, kt, vt)

\* Map.GobDecode(b) on the Map[kt, vt] o: len stays 0 when decoding it fails
\* (the error of that Decode is dropped).
GobDecode(o, b, kt, vt) ==
    LET d   == Decode(b, "int", [t |-> "int", n |-> 0])
        len == IF d.err = nil THEN d.g.n ELSE 0
    IN GobDecodeLoop(LazyInit(o), d.rest, 0, len, kt, vt)

\* ------------------------------------------------------------- the state
VARIABLES
    mp,        \* Map.mp: the hash index, key -> [elem, value]
    items,     \* Map.items: the order list
    last,      \* the call made last: its name, arguments and result
    pre,       \* the map as it was when the last call started
    pre2,      \* the map before two consecutive Puts of one key, if those were the last two calls
    latest,    \* per key now present: the value of the latest Put of it
    order,     \* the keys now present, in the order of the Put that inserted them
    log,       \* the Put calls made since the map was constructed or cleared
    clean,     \* no Remove since the map was constructed or cleared
    origin,    \* "new": constructed and never cleared; "cleared": emptied by Clear
    clearedLen, \* Len() when Clear was called last
    arrays,    \* backing arrays of the slices the caller still holds
    snap,      \* the slice the caller kept from a Keys/Values/KeyValues call
    ktype,     \* the type argument K the map (T the set) was constructed with
    vtype,     \* the type argument V the map was constructed with
    enc,       \* what the encode call made last on the container returned
    dec,       \* the map the decode call made last was given, and what it returned
    callers,   \* the goroutines calling Put and Remove on the map, and their mutex
    former     \* per key removed so far: its index in Keys() when it was removed last

vars == <<mp, items, last, pre, pre2, latest, order, log, clean, origin,
          clearedLen, arrays, snap, ktype, vtype, enc, dec, callers, former>>

callVars == <<last, pre, pre2, latest, order>>
logVars  == <<log, clean, origin, clearedLen>>
snapVars == <<arrays, snap>>
codecVars == <<ktype, vtype, enc, dec>>

\* The receiver of a method call: the Map the two fields make up.
Self == [mp |-> mp, items |-> items]

Call(op, key, value, kvs, ret) ==
    [op |-> op, key |-> key, value |-> value, kvs |-> kvs, ret |-> ret]

NoPre2 == [set |-> FALSE]

\* No goroutine but the one making the calls.
NoCallers == [n |-> 0]

\* No key has been removed.
NoFormer == [k \in {} |-> 0]

\* No encode / no decode call was made on the container as it is now.
NoEnc == [op |-> "none"]
NoDec == [op |-> "none"]

\* A container of integer keys and values of type vt on which no codec is
\* called.
NoCodec(vt) == ktype = "int" /\ vtype = vt /\ enc = NoEnc /\ dec = NoDec

EmptyLatest == [k \in {} |-> ZeroV]

\* Argument lists of NewMapWithKVs.
KVSeqs == UNION {[1..n -> KV] : n \in 0..MaxKVs}

\* The state right after a constructor call `call` returned the map o.
Constructed(o, call) ==
    /\ mp = o.mp
    /\ items = o.items
    /\ last = call
    /\ pre = NewMap
    /\ pre2 = NoPre2
    /\ log = <<>>
    /\ clean = TRUE
    /\ origin = "new"
    /\ clearedLen = 0
    /\ arrays = <<>>
    /\ snap = [held |-> FALSE]

\* The fields after a call that leaves the map as o2.
Becomes(o2) == mp' = o2.mp /\ items' = o2.items

\* `latest` and `order` record what the calls made so far say about the map,
\* independently of mp and items: what a Put of key/value does to them.
LatestPut(key, value) ==
    [k \in DOMAIN latest \cup {key} |-> IF k = key THEN value ELSE latest[k]]
OrderPut(key) ==
    IF \E i \in 1..Len(order) : order[i] = key THEN order ELSE Append(order, key)

RECURSIVE LatestOf(_), OrderOf(_)
\* The same for a whole argument list, applied front to back.
LatestOf(kvs) ==
    IF kvs = <<>> THEN EmptyLatest
    ELSE LET n == Len(kvs)
             r == LatestOf(SubSeq(kvs, 1, n - 1))
         IN [k \in DOMAIN r \cup {kvs[n].Key} |->
                IF k = kvs[n].Key THEN kvs[n].Value ELSE r[k]]
OrderOf(kvs) ==
    IF kvs = <<>> THEN <<>>
    ELSE LET n == Len(kvs)
             r == OrderOf(SubSeq(kvs, 1, n - 1))
         IN IF \E i \in 1..Len(r) : r[i] = kvs[n].Key THEN r
            ELSE Append(r, kvs[n].Key)

\* -------------------------------------------------- calls on the map (Spec)
\* The map under test is built by one of the three constructors.
InitNewMap ==
    /\ callers = NoCallers
    /\ former = NoFormer
    /\ Constructed(NewMap, Call("NewMap", ZeroK, ZeroV, <<>>, 0))
    /\ latest = EmptyLatest /\ order = <<>>
    /\ NoCodec("int")

InitNewMapWithCapacity ==
    \E capacity \in 0..MaxCap :
        /\ callers = NoCallers
        /\ former = NoFormer
        /\ Constructed(NewMapWithCapacity(capacity),
                       Call("NewMapWithCapacity", ZeroK, capacity, <<>>, 0))
        /\ latest = EmptyLatest /\ order = <<>>
        /\ NoCodec("int")

InitNewMapWithKVs ==
    \E kvs \in KVSeqs :
        /\ callers = NoCallers
        /\ former = NoFormer
        /\ Constructed(NewMapWithKVs(kvs), Call("NewMapWithKVs", ZeroK, ZeroV, kvs, 0))
        /\ latest = LatestOf(kvs) /\ order = OrderOf(kvs)
        /\ NoCodec("int")

Init == InitNewMap \/ InitNewMapWithCapacity \/ InitNewMapWithKVs

CallPut ==
    \E key \in K, value \in V :
        /\ Becomes(Put(Self, key, value))
        /\ last' = Call("Put", key, value, <<>>, 0)
        /\ pre' = Self
        /\ pre2' = IF last.op = "Put" /\ last.key = key
                   THEN [set |-> TRUE, o |-> pre, v1 |-> last.value]
                   ELSE NoPre2
        /\ latest' = LatestPut(key, value) /\ order' = OrderPut(key)
        /\ UNCHANGED <<logVars, callers, former, snapVars, codecVars>>

CallRemove ==
    \E key \in K :
        LET r == Remove(Self, key)
        IN /\ Becomes(r.o)
           /\ last' = Call("Remove", key, ZeroV, <<>>, r.ret)
           /\ pre' = Self /\ pre2' = NoPre2
           /\ latest' = [k \in DOMAIN latest \ {key} |-> latest[k]]
           /\ order' = SelectSeq(order, LAMBDA k : k # key)
           /\ UNCHANGED <<logVars, callers, former, snapVars, codecVars>>

CallClear ==
    /\ Becomes(Clear(Self))
    /\ last' = Call("Clear", ZeroK, ZeroV, <<>>, 0)
    /\ pre' = Self /\ pre2' = NoPre2
    /\ latest' = EmptyLatest /\ order' = <<>>
    /\ UNCHANGED <<logVars, callers, former, snapVars, codecVars>>

\* Mutant: a Get or GetOrDefault of a missing key stores the value it
\* returns under the key.
Query_StoresOnMiss(op, key, value, ret) ==
    /\ IF op \in {"Get", "GetOrDefault"} /\ key \notin DOMAIN mp
       THEN Becomes(Put(Self, key, value)) /\ UNCHANGED <<latest, order>>
       ELSE UNCHANGED <<mp, items, latest, order>>
    /\ last' = Call(op, key, value, <<>>, ret)
    /\ pre' = Self /\ pre2' = NoPre2
    /\ UNCHANGED <<logVars, callers, former, snapVars, codecVars>>

\* A call that only reads: the map is the receiver's, the result is recorded.
Query(op, key, value, ret) ==
    /\ UNCHANGED <<mp, items, latest, order>>
    /\ last' = Call(op, key, value, <<>>, ret)
    /\ pre' = Self /\ pre2' = NoPre2
    /\ UNCHANGED <<logVars, callers, former, snapVars, codecVars>>

CallGet == \E key \in K : Query("Get", key, ZeroV, Get(Self, key))

CallGetOrDefault ==
    \E key \in K, defaultValue \in V :
        Query("GetOrDefault", key, defaultValue, GetOrDefault(Self, key, defaultValue))

CallContainsKey == \E key \in K : Query("ContainsKey", key, ZeroV, ContainsKey(Self, key))

CallLen == Query("Len", ZeroK, ZeroV, MapLen(Self))

CallKeys == Query("Keys", ZeroK, ZeroV, Keys(Self))

CallValues == Query("Values", ZeroK, ZeroV, Values(Self))

CallKeyValues == Query("KeyValues", ZeroK, ZeroV, KeyValues(Self))

CallForEach == Query("ForEach", ZeroK, ZeroV, ForEach(Self))

CallIsEmpty == Query("IsEmpty", ZeroK, ZeroV, IsEmpty(Self))

Next ==
    \/ CallPut
    \/ CallGet
    \/ CallGetOrDefault
    \/ CallContainsKey
    \/ CallRemove
    \/ CallLen
    \/ CallKeys
    \/ CallValues
    \/ CallKeyValues
    \/ CallForEach
    \/ CallIsEmpty
    \/ CallClear

Spec == Init /\ [][Next]_vars

\* ------------------------------------- a logged run of mutations (SpecLog)
\* The map is built by NewMap; Put, Remove and Clear are called on it, and
\* the Puts made since construction, or since the last Clear, are logged for
\* as long as no Remove intervenes and the log has room.
LogPut ==
    \E key \in K, value \in V :
        /\ clean => Len(log) < MaxPuts
        /\ Becomes(Put(Self, key, value))
        /\ log' = IF clean THEN Append(log, [Key |-> key, Value |-> value]) ELSE log
        /\ UNCHANGED <<clean, origin, clearedLen, callers, former, callVars, snapVars, codecVars>>

LogRemove ==
    \E key \in K :
        /\ Becomes(Remove(Self, key).o)
        /\ log' = <<>>
        /\ clean' = FALSE
        /\ UNCHANGED <<origin, clearedLen, callers, former, callVars, snapVars, codecVars>>

LogClear ==
    /\ Becomes(Clear(Self))
    /\ log' = <<>>
    /\ clean' = TRUE
    /\ origin' = "cleared"
    /\ clearedLen' = MapLen(Self)
    /\ UNCHANGED <<callers, former>>
    /\ UNCHANGED <<callVars, snapVars, codecVars>>

NextLog == LogPut \/ LogRemove \/ LogClear

SpecLog == InitNewMap /\ [][NextLog]_vars

\* ------------------------------------ slices kept by the caller (SpecSnap)
\* Keys, Values and KeyValues return a slice over an array they allocate
\* with make().  The caller keeps at most one returned slice; an array no
\* slice of the caller refers to is garbage and leaves `arrays`.
NumArrays == 2

\* Mutant: every call returns a slice over one shared array.
MakeSlice_Shared(held) == 1

\* make([]T, n): the address of a new array, one that no kept array occupies.
MakeSlice(held) ==
    CHOOSE a \in 1..NumArrays :
        a \notin DOMAIN held /\ \A b \in 1..NumArrays : b < a => b \in DOMAIN held

\* A call that returns the slice `contents`: the array is allocated and
\* filled; the caller keeps the slice, or lets it go.
SnapReturn(kind, contents) ==
    LET a       == MakeSlice(arrays)
        written == [x \in DOMAIN arrays \cup {a} |->
                       IF x = a THEN contents ELSE arrays[x]]
    IN /\ UNCHANGED <<mp, items, callVars, logVars, callers, former, codecVars>>
       /\ \/ /\ ~snap.held
             /\ arrays' = written
             /\ snap' = [held |-> TRUE, arr |-> a, kind |-> kind, copy |-> contents]
          \/ /\ arrays' = [x \in DOMAIN arrays |-> written[x]]
             /\ UNCHANGED snap

SnapKeys == SnapReturn("Keys", Keys(Self))

SnapValues == SnapReturn("Values", Values(Self))

SnapKeyValues == SnapReturn("KeyValues", KeyValues(Self))

\* The caller lets go of the slice it kept.
SnapDrop ==
    /\ snap.held
    /\ snap' = [held |-> FALSE]
    /\ arrays' = <<>>
    /\ UNCHANGED <<mp, items, callVars, logVars, callers, former, codecVars>>

SnapPut ==
    \E key \in K, value \in V :
        /\ Becomes(Put(Self, key, value))
        /\ UNCHANGED <<callVars, logVars, callers, former, snapVars, codecVars>>

SnapRemove ==
    \E key \in K :
        /\ Becomes(Remove(Self, key).o)
        /\ UNCHANGED <<callVars, logVars, callers, former, snapVars, codecVars>>

SnapClear ==
    /\ Becomes(Clear(Self))
    /\ UNCHANGED <<callVars, logVars, callers, former, snapVars, codecVars>>

NextSnap ==
    \/ SnapKeys
    \/ SnapValues
    \/ SnapKeyValues
    \/ SnapDrop
    \/ SnapPut
    \/ SnapRemove
    \/ SnapClear

SpecSnap == InitNewMap /\ [][NextSnap]_vars

\* ------------------------------------------------ calls on a set (SpecSet)
\* The set under test is built by NewSet or NewSetWithElems; mp and items are
\* the fields of the Map its mp field points to.  The elements added since
\* construction are logged for as long as no Remove or Clear intervenes and
\* the log has room.
SelfSet == [mp |-> Self]

\* Argument lists of NewSetWithElems.
ElemSeqs == UNION {[1..n -> K] : n \in 0..MaxKVs}

\* The state right after a constructor call returned the set s, having added
\* the elements elems on the way.
SetConstructed(s, call, elems) ==
    /\ mp = s.mp.mp
    /\ items = s.mp.items
    /\ last = call
    /\ pre = NewMap
    /\ pre2 = NoPre2
    /\ latest = EmptyLatest
    /\ order = <<>>
    /\ log = elems
    /\ clean = TRUE
    /\ origin = "new"
    /\ clearedLen = 0
    /\ callers = NoCallers
    /\ former = NoFormer
    /\ arrays = <<>>
    /\ snap = [held |-> FALSE]
    /\ NoCodec("struct{}")

InitNewSet == SetConstructed(NewSet, Call("NewSet", ZeroK, dummy, <<>>, 0), <<>>)

InitNewSetWithElems ==
    \E elems \in ElemSeqs :
        SetConstructed(NewSetWithElems(elems),
                       Call("NewSetWithElems", ZeroK, dummy, elems, 0), elems)

InitSet == InitNewSet \/ InitNewSetWithElems

SetCallAdd ==
    \E elem \in K :
        /\ clean => Len(log) <= MaxPuts
        /\ Becomes(Add(SelfSet, elem).mp)
        /\ last' = Call("Add", elem, dummy, <<>>, 0)
        /\ pre' = Self
        /\ log' = IF clean THEN Append(log, elem) ELSE log
        /\ UNCHANGED <<pre2, latest, order, clean, origin, clearedLen, callers, former, snapVars, codecVars>>

SetCallRemove ==
    \E elem \in K :
        LET r == SetRemove(SelfSet, elem)
        IN /\ Becomes(r.s.mp)
           /\ last' = Call("Remove", elem, dummy, <<>>, r.ret)
           /\ pre' = Self
           /\ log' = <<>>
           /\ clean' = FALSE
           /\ UNCHANGED <<pre2, latest, order, origin, clearedLen, callers, former, snapVars, codecVars>>

SetCallClear ==
    /\ Becomes(SetClear(SelfSet).mp)
    /\ last' = Call("Clear", ZeroK, dummy, <<>>, 0)
    /\ pre' = Self
    /\ log' = <<>>
    /\ clean' = FALSE
    /\ UNCHANGED <<pre2, latest, order, origin, clearedLen, callers, former, snapVars, codecVars>>

SetCallContains == \E elem \in K : Query("Contains", elem, dummy, Contains(SelfSet, elem))

SetCallLen == Query("Len", ZeroK, dummy, SetLen(SelfSet))

SetCallElements == Query("Elements", ZeroK, dummy, Elements(SelfSet))

SetCallIsEmpty == Query("IsEmpty", ZeroK, dummy, SetIsEmpty(SelfSet))

NextSet ==
    \/ SetCallAdd
    \/ SetCallRemove
    \/ SetCallClear
    \/ SetCallContains
    \/ SetCallLen
    \/ SetCallElements
    \/ SetCallIsEmpty

SpecSet == InitSet /\ [][NextSet]_vars

\* --------------------------------------- encoding and decoding (SpecCodec)
\* The container under test is a Map[ktype, vtype] built by NewMap and
\* changed by Put, Remove and Clear; with vtype struct{} it is also the map
\* under a Set[ktype] changed by Add, Remove and Clear.  It is encoded as it
\* is; what an encode call returned is decoded into a new map, and so are
\* object texts written by hand.
\* Longest member list of a hand-written object text.
MaxMembers == 2

RECURSIVE Join(_, _)
\* The texts of a sequence, sep between consecutive ones.
Join(texts, sep) ==
    IF texts = <<>> THEN <<>>
    ELSE IF Len(texts) = 1 THEN texts[1]
    ELSE texts[1] \o <<sep>> \o Join(Tail(texts), sep)

\* The text a key is known by: the string itself, the decimal digits of an
\* integer, X-Y-Z for a point3d; some name for a key of another type.
NameText(kt, k) ==
    CASE kt = "string"  -> StringKey(k)
      [] kt = "int"     -> IntText(IntKey(k))
      [] kt = "point3d" -> IntText(k) \o <<"-", "0", "-">> \o IntText(10 * k)
      [] OTHER          -> <<"k">> \o IntText(k)

\* The JSON text of a value: a number, a string literal, null, {}.
ValueText(vt, v) ==
    CASE vt = "int"      -> IntText(10 * v)
      [] vt = "string"   -> JsonString(StringVal(v))
      [] vt = "any"      -> <<"n", "u", "l", "l">>
      [] vt = "struct{}" -> <<"{", "}">>

\* The values that have a JSON text: all but the complex128 in an `any`.
HasValueText(vt, v) == vt = "any" => v = 0

\* The object text with the members kvs, in that order: {"name":value,...}.
ObjectText(kt, vt, kvs) ==
    <<"{">> \o
    Join([i \in 1..Len(kvs) |->
             JsonString(NameText(kt, kvs[i].Key)) \o <<":">> \o ValueText(vt, kvs[i].Value)],
         ",") \o
    <<"}">>

\* Member lists of the hand-written object texts for a Map[kt, vt].
SourceKVs(kt, vt) ==
    UNION {[1..n -> [Key : KeysOfType(kt),
                     Value : {v \in ValuesOfType(vt) : HasValueText(vt, v)}]] :
           n \in 0..MaxMembers}

InitCodec ==
    /\ callers = NoCallers
    /\ former = NoFormer
    /\ Constructed(NewMap, Call("NewMap", ZeroK, ZeroV, <<>>, 0))
    /\ latest = EmptyLatest /\ order = <<>>
    /\ ktype \in KTypes
    /\ vtype \in VTypes
    /\ enc = NoEnc
    /\ dec = NoDec

\* Put on the map; Add on the set when vtype is struct{}.
CodecPut ==
    \E key \in KeysOfType(ktype), value \in ValuesOfType(vtype) :
        /\ Becomes(Put(Self, key, value))
        /\ enc' = NoEnc /\ dec' = NoDec
        /\ UNCHANGED <<ktype, vtype, callVars, logVars, callers, former, snapVars>>

CodecRemove ==
    \E key \in KeysOfType(ktype) :
        /\ Becomes(Remove(Self, key).o)
        /\ enc' = NoEnc /\ dec' = NoDec
        /\ UNCHANGED <<ktype, vtype, callVars, logVars, callers, former, snapVars>>

CodecClear ==
    /\ Becomes(Clear(Self))
    /\ enc' = NoEnc /\ dec' = NoDec
    /\ UNCHANGED <<ktype, vtype, callVars, logVars, callers, former, snapVars>>

\* An encode call: the receiver is not written, the result is kept.
Encoded(op, r) ==
    /\ enc' = [op |-> op, b |-> r.b, err |-> r.err, o |-> Self]
    /\ dec' = NoDec
    /\ UNCHANGED <<mp, items, ktype, vtype, callVars, logVars, callers, former, snapVars>>

CodecMarshalJSON == Encoded("MarshalJSON", MarshalJSON(Self, ktype, vtype))

CodecSetMarshalJSON ==
    /\ vtype = "struct{}"
    /\ Encoded("Set.MarshalJSON", SetMarshalJSON(SelfSet, ktype))

CodecGobEncode == Encoded("GobEncode", GobEncode(Self, ktype, vtype))

\* gob.NewEncoder(&buf).Encode(s) for the set: gob finds no method of Set to
\* call and encodes the struct itself.
CodecSetGobEncode ==
    /\ vtype = "struct{}"
    /\ Encoded("Set.GobEncode", Encode(<<>>, GoSet(SelfSet)))

\* String and Set.String return no error.
CodecString == Encoded("String", [b |-> String(Self, ktype, vtype), err |-> nil])

CodecSetString ==
    /\ vtype = "struct{}"
    /\ Encoded("Set.String", [b |-> SetString(SelfSet, ktype), err |-> nil])

\* A decode call on a new map of the same type arguments: the map it leaves
\* and the error are kept, with the members the text was written from.
Decoded(op, from, src, r) ==
    /\ dec' = [op |-> op, from |-> from, src |-> src, o |-> r.o, err |-> r.err]
    /\ UNCHANGED <<mp, items, ktype, vtype, enc, callVars, logVars, callers, former, snapVars>>

\* What MarshalJSON returned is given to UnmarshalJSON.
CodecUnmarshalJSON ==
    /\ enc.op = "MarshalJSON" /\ enc.err = nil
    /\ Decoded("UnmarshalJSON", "MarshalJSON", <<>>,
               UnmarshalJSON(NewMap, enc.b, ktype, vtype))

\* What GobEncode returned is given to GobDecode.
CodecGobDecode ==
    /\ enc.op = "GobEncode" /\ enc.err = nil
    /\ Decoded("GobDecode", "GobEncode", <<>>, GobDecode(NewMap, enc.b, ktype, vtype))

\* A hand-written object text is given to UnmarshalJSON, before anything
\* else is called.
CodecUnmarshalText ==
    /\ IsEmpty(Self) /\ enc = NoEnc /\ dec = NoDec
    /\ \E kvs \in SourceKVs(ktype, vtype) :
          Decoded("UnmarshalJSON", "text", kvs,
                  UnmarshalJSON(NewMap, ObjectText(ktype, vtype, kvs), ktype, vtype))

NextCodec ==
    \/ CodecPut
    \/ CodecRemove
    \/ CodecClear
    \/ CodecMarshalJSON
    \/ CodecSetMarshalJSON
    \/ CodecGobEncode
    \/ CodecSetGobEncode
    \/ CodecString
    \/ CodecSetString
    \/ CodecUnmarshalJSON
    \/ CodecGobDecode
    \/ CodecUnmarshalText

SpecCodec == InitCodec /\ [][NextCodec]_vars

\* ------------------------------------------------------------ the claims
\* The keys / the pairs of a sequence of KeyValue records.
KeysOf(kvs) == [i \in 1..Len(kvs) |-> kvs[i].Key]
PairsOf(kvs) == [i \in 1..Len(kvs) |-> <<kvs[i].Key, kvs[i].Value>>]

RECURSIVE FirstOccurrences(_)
\* The distinct members of a sequence, each once, in the order of their
\* first occurrence.
FirstOccurrences(s) ==
    IF s = <<>> THEN <<>>
    ELSE LET n == Len(s)
             r == FirstOccurrences(SubSeq(s, 1, n - 1))
         IN IF \E i \in 1..Len(r) : r[i] = s[n] THEN r ELSE Append(r, s[n])

\* The value of the last pair of kvs that has the key k.
LastValue(kvs, k) ==
    LET I == {i \in 1..Len(kvs) : kvs[i].Key = k}
        m == CHOOSE i \in I : \A j \in I : j <= i
    IN kvs[m].Value

RECURSIVE PutAll(_, _)
\* The map o after Put(kv1), ..., Put(kvn), in that order.
PutAll(o, kvs) ==
    IF kvs = <<>> THEN o
    ELSE LET n == Len(kvs)
         IN Put(PutAll(o, SubSeq(kvs, 1, n - 1)), kvs[n].Key, kvs[n].Value)

\* C2: Put(k, v1) followed by Put(k, v2), from any state of the map, gives
\* Get(k) = (v2, true) and the same Keys(), and the same value for every
\* other key, as the single call Put(k, v2) from the same starting state.
C2_PutTwiceIsPutOnce ==
    pre2.set =>
        LET once == Put(pre2.o, last.key, last.value)
        IN /\ Get(Self, last.key) = <<last.value, TRUE>>
           /\ Keys(Self) = Keys(once)
           /\ \A k \in K \ {last.key} : Get(Self, k) = Get(once, k)
           /\ KeyValues(Self) = KeyValues(once)

\* Two Puts of a key with different values were made on a map that held the
\* key, with another value, in front of two other keys.
C2_Witness ==
    /\ pre2.set
    /\ pre2.v1 # last.value
    /\ MapLen(pre2.o) = 3
    /\ Keys(pre2.o)[1] = last.key
    /\ Get(pre2.o, last.key)[1] # pre2.v1

\* C3: Remove(k) on a map that contains k returns the value stored for k,
\* makes ContainsKey(k) false and leaves KeyValues() as it was with exactly
\* the entry of k deleted.
C3_RemovePresent ==
    (last.op = "Remove" /\ ContainsKey(pre, last.key)) =>
        /\ last.ret = Get(pre, last.key)[1]
        /\ ~ContainsKey(Self, last.key)
        /\ KeyValues(Self) =
               SelectSeq(KeyValues(pre), LAMBDA kv : kv.Key # last.key)

\* A key with a non-zero value was removed from the middle of three.
C3_Witness ==
    /\ last.op = "Remove"
    /\ MapLen(pre) = 3
    /\ Keys(pre)[2] = last.key
    /\ last.ret # ZeroV
    /\ MapLen(Self) = 2

\* C4: Len() equals the number of distinct keys now present, the lengths of
\* Keys(), Values() and KeyValues(), and IsEmpty() is true exactly when
\* Len() is 0.
C4_SizeInvariant ==
    LET n == MapLen(Self)
    IN /\ n = Cardinality(DOMAIN latest)
       /\ n = Cardinality({Keys(Self)[i] : i \in 1..Len(Keys(Self))})
       /\ n = Len(Keys(Self))
       /\ n = Len(Values(Self))
       /\ n = Len(KeyValues(Self))
       /\ IsEmpty(Self) <=> (n = 0)
       /\ last.op = "Len" => last.ret = Cardinality(DOMAIN latest)
       /\ last.op = "IsEmpty" => (last.ret <=> Cardinality(DOMAIN latest) = 0)

\* Len() was called, and returned 2, on a map that lacks a non-zero key.
C4_Witness ==
    /\ last.op = "Len"
    /\ last.ret = 2
    /\ \E k \in K : ~ContainsKey(Self, k) /\ k # ZeroK

\* C5: Get(k) returns (v, true), v the value of the latest Put(k, .), when k
\* is present and (zero value, false) when it is absent; GetOrDefault(k, d)
\* returns the same v, or d when k is absent; ContainsKey(k) is the found
\* flag of Get(k).
C5_Lookup ==
    /\ \A k \in K :
          /\ k \in DOMAIN latest =>
                /\ Get(Self, k) = <<latest[k], TRUE>>
                /\ \A d \in V : GetOrDefault(Self, k, d) = latest[k]
          /\ k \notin DOMAIN latest =>
                /\ Get(Self, k) = <<ZeroV, FALSE>>
                /\ \A d \in V : GetOrDefault(Self, k, d) = d
          /\ ContainsKey(Self, k) = Get(Self, k)[2]
    /\ last.op = "Get" =>
          last.ret = IF last.key \in DOMAIN latest
                     THEN <<latest[last.key], TRUE>> ELSE <<ZeroV, FALSE>>
    /\ last.op = "GetOrDefault" =>
          last.ret = IF last.key \in DOMAIN latest
                     THEN latest[last.key] ELSE last.value
    /\ last.op = "ContainsKey" => last.ret = (last.key \in DOMAIN latest)

\* GetOrDefault was called with a non-zero default for a key that holds the
\* zero value, in a map that lacks another key.
C5_Witness ==
    /\ last.op = "GetOrDefault"
    /\ last.value # ZeroV
    /\ last.key \in DOMAIN latest
    /\ latest[last.key] = ZeroV
    /\ DOMAIN latest # K

\* C6: Remove(k) on a map that does not contain k returns the zero value and
\* leaves Len(), Keys(), Values() and KeyValues() as they were.
C6_RemoveAbsent ==
    (last.op = "Remove" /\ ~ContainsKey(pre, last.key)) =>
        /\ last.ret = ZeroV
        /\ MapLen(Self) = MapLen(pre)
        /\ Keys(Self) = Keys(pre)
        /\ Values(Self) = Values(pre)
        /\ KeyValues(Self) = KeyValues(pre)
        /\ Self = pre

\* An absent key was removed from a map holding two keys.
C6_Witness ==
    /\ last.op = "Remove"
    /\ ~ContainsKey(pre, last.key)
    /\ MapLen(pre) = 2

\* C9: ForEach(f) calls f once per entry, with the entry's key and value, in
\* insertion order: the arguments f receives are KeyValues() at the call.
C9_ForEach ==
    last.op = "ForEach" =>
        /\ last.ret = PairsOf(KeyValues(pre))
        /\ Len(last.ret) = Len(order)
        /\ \A i \in 1..Len(order) : last.ret[i] = <<order[i], latest[order[i]]>>
        /\ \A k \in DOMAIN latest :
              Cardinality({i \in 1..Len(last.ret) : last.ret[i][1] = k}) = 1

\* ForEach visited three entries, not in key order, one holding a value
\* that a later Put replaced.
C9_Witness ==
    /\ last.op = "ForEach"
    /\ Len(last.ret) = 3
    /\ last.ret[1][1] > last.ret[2][1]
    /\ \E i \in 1..3 : last.ret[i][2] # ZeroV

\* C10: NewMapWithKVs(kv1..kvn) leaves the map an empty map has after
\* Put(kv1), ..., Put(kvn): each distinct key once, at the position of its
\* first occurrence, with the value of its last pair.
C10_NewMapWithKVs ==
    last.op = "NewMapWithKVs" =>
        /\ Self = PutAll(NewMap, last.kvs)
        /\ Keys(Self) = FirstOccurrences(KeysOf(last.kvs))
        /\ \A i \in 1..Len(Keys(Self)) :
              Values(Self)[i] = LastValue(last.kvs, Keys(Self)[i])
        /\ KeyValues(Self) =
              [i \in 1..Len(Keys(Self)) |->
                  [Key |-> Keys(Self)[i], Value |-> Values(Self)[i]]]

\* NewMapWithKVs was given three pairs, the first and the last with the same
\* key and different values.
C10_Witness ==
    /\ last.op = "NewMapWithKVs"
    /\ Len(last.kvs) = 3
    /\ last.kvs[1].Key = last.kvs[3].Key
    /\ last.kvs[1].Key # last.kvs[2].Key
    /\ last.kvs[1].Value # last.kvs[3].Value
    /\ last.kvs[1].Key > last.kvs[2].Key

\* C1: after any sequence of Put calls on an initially empty map, with no
\* Remove or Clear, Keys() is the distinct keys, each once, in the order of
\* their first Put.
C1_OrderPreservation ==
    (origin = "new" /\ clean) => Keys(Self) = FirstOccurrences(KeysOf(log))

\* Three Puts were made on a new map: a key, a smaller key, the first key again.
C1_Witness ==
    /\ origin = "new" /\ clean
    /\ Len(log) = 3
    /\ log[1].Key = log[3].Key
    /\ log[2].Key < log[1].Key
    /\ log[1].Value # log[3].Value

\* C7: after Clear(), Len() is 0, IsEmpty() is true, Keys(), Values() and
\* KeyValues() are empty, and the Puts that follow leave the map as they
\* leave a newly constructed one.
C7_Clear ==
    (origin = "cleared" /\ clean) =>
        /\ log = <<>> =>
              /\ MapLen(Self) = 0
              /\ IsEmpty(Self)
              /\ Keys(Self) = <<>>
              /\ Values(Self) = <<>>
              /\ KeyValues(Self) = <<>>
        /\ Self = PutAll(NewMap, log)
        /\ Keys(Self) = FirstOccurrences(KeysOf(log))
        /\ \A i \in 1..Len(Keys(Self)) :
              Values(Self)[i] = LastValue(log, Keys(Self)[i])

\* A map of three keys was cleared, and two keys were Put since, the larger
\* one first.
C7_Witness ==
    /\ origin = "cleared" /\ clean
    /\ clearedLen = 3
    /\ Len(log) = 2
    /\ log[1].Key > log[2].Key
    /\ MapLen(Self) = 2

\* C8: a sequence returned by Keys(), Values() or KeyValues() is a snapshot:
\* whatever is called on the map later, the returned sequence keeps the
\* length and the contents it had when it was returned.
C8_Snapshot ==
    snap.held =>
        /\ snap.arr \in DOMAIN arrays
        /\ Len(arrays[snap.arr]) = Len(snap.copy)
        /\ arrays[snap.arr] = snap.copy

\* The caller holds a KeyValues() result of two entries, and the map has
\* since lost one of them and had the other's value replaced.
C8_Witness ==
    /\ snap.held
    /\ snap.kind = "KeyValues"
    /\ Len(snap.copy) = 2
    /\ MapLen(Self) = 1
    /\ \E i \in 1..2 :
          /\ ContainsKey(Self, snap.copy[i].Key)
          /\ Get(Self, snap.copy[i].Key)[1] # snap.copy[i].Value

\* C11: for any sequence of Add calls on a set, those made by NewSetWithElems
\* included, Elements() lists each distinct element once, in the order of its
\* first Add; and an Add of an element already in the set changes neither
\* Len(), nor the result of Contains for any element, nor Elements().
C11_SetAdd ==
    /\ clean => Elements(SelfSet) = FirstOccurrences(log)
    /\ (last.op = "Add" /\ Contains([mp |-> pre], last.key)) =>
          /\ SetLen(SelfSet) = SetLen([mp |-> pre])
          /\ \A e \in K : Contains(SelfSet, e) = Contains([mp |-> pre], e)
          /\ Elements(SelfSet) = Elements([mp |-> pre])

\* NewSetWithElems was given an element, a smaller one and the first again,
\* and the first was then added once more with Add.
C11_Witness ==
    /\ clean
    /\ Len(log) = 4
    /\ log[2] < log[1]
    /\ log[3] = log[1]
    /\ log[4] = log[1]
    /\ last.op = "Add"
    /\ SetLen(SelfSet) = 2

\* C12: Set.Remove(e) returns true exactly when e was in the set before the
\* call; when it returns true, e is no longer contained and the other
\* elements keep their relative order; when it returns false, the set is as
\* it was.
C12_SetRemove ==
    last.op = "Remove" =>
        LET before == [mp |-> pre]
        IN /\ last.ret = Contains(before, last.key)
           /\ last.ret =>
                 /\ ~Contains(SelfSet, last.key)
                 /\ Elements(SelfSet) =
                       SelectSeq(Elements(before), LAMBDA e : e # last.key)
                 /\ SetLen(SelfSet) = SetLen(before) - 1
           /\ ~last.ret => SelfSet = before

\* The middle one of three elements was removed.
C12_Witness ==
    /\ last.op = "Remove"
    /\ last.ret = TRUE
    /\ Len(Elements([mp |-> pre])) = 3
    /\ Elements([mp |-> pre])[2] = last.key
    /\ Len(Elements(SelfSet)) = 2

\* The key types the textual codec is meant for (errKey's own MarshalText
\* fails, so no errKey is encodable) and those both codecs can carry.
TextKeyTypes == {"string", "point3d"} \cup IntTypes
CarriedValueTypes == {"int", "string"}

\* Every value the map holds has a JSON text.
ValuesEncodable(o, vt) ==
    \A i \in 1..Len(Values(o)) : HasValueText(vt, Values(o)[i])

\* C13: for every map reachable by Put, Remove and Clear whose key type is
\* string, an integer type or a text-convertible type and whose values are
\* encodable, MarshalJSON succeeds, and UnmarshalJSON of its output into a
\* new map succeeds and gives KeyValues() equal to the map's, pairs and
\* order.
C13_TextRoundTrip ==
    (ktype \in TextKeyTypes /\ ValuesEncodable(Self, vtype)) =>
        /\ enc.op = "MarshalJSON" => enc.err = nil
        /\ (dec.op = "UnmarshalJSON" /\ dec.from = "MarshalJSON") =>
              /\ dec.err = nil
              /\ KeyValues(dec.o) = KeyValues(Self)

C15_IntKeyDecode ==
    (dec.op = "UnmarshalJSON" /\ dec.from = "text" /\ ktype \in IntTypes /\ vtype = "int") =>
        /\ dec.err = nil
        /\ Keys(dec.o) = FirstOccurrences(KeysOf(dec.src))

\* C16: MarshalJSON of a map of integer keys writes every key as its decimal
\* text between double quotes (1 as "1", -3 as "-3"), so that the output
\* reads as an object whose member names are those texts.
C16_IntKeyEncode ==
    (enc.op = "MarshalJSON" /\ ktype \in IntTypes /\ enc.err = nil) =>
        LET kvs    == KeyValues(Self)
            parsed == ObjectEach(enc.b)
        IN /\ parsed.err = nil
           /\ Len(parsed.members) = Len(kvs)
           /\ \A i \in 1..Len(kvs) :
                 /\ parsed.members[i].key = IntText(IntKey(kvs[i].Key))
                 /\ IntKey(kvs[i].Key) = 1 => parsed.members[i].key = <<"1">>
                 /\ IntKey(kvs[i].Key) = -3 => parsed.members[i].key = <<"-", "3">>

\* The keys -3, 1 and 0 were encoded, in that order.
C16_Witness ==
    /\ enc.op = "MarshalJSON" /\ enc.err = nil
    /\ ktype = "int" /\ vtype = "int"
    /\ MapLen(Self) = 3
    /\ IntKey(Keys(Self)[1]) = -3
    /\ IntKey(Keys(Self)[2]) = 1

\* The JSON text of a set element: a string literal for a string and for a
\* point3d, the digits for an integer, {} for a point.
ElemText(t, e) ==
    CASE t = "int"   -> IntText(IntKey(e))
      [] t = "point" -> <<"{", "}">>
      [] OTHER       -> JsonString(NameText(t, e))

\* C17: after any sequence of Put, Remove and Clear (Add, Remove and Clear)
\* the textual encoding lists the entries in the current insertion order,
\* one comma between consecutive entries and none trailing: a map as
\* {"k1":v1,"k2":v2,...}, the empty map as {}, a set as [e1,e2,...], the
\* empty set as [].
C17_TextFormat ==
    /\ (enc.op = "MarshalJSON" /\ enc.err = nil) =>
          /\ enc.b = ObjectText(ktype, vtype, KeyValues(Self))
          /\ IsEmpty(Self) => enc.b = <<"{", "}">>
    /\ (enc.op = "Set.MarshalJSON" /\ enc.err = nil) =>
          /\ enc.b = <<"[">> \o
                     Join([i \in 1..SetLen(SelfSet) |-> ElemText(ktype, Elements(SelfSet)[i])],
                          ",") \o
                     <<"]">>
          /\ SetIsEmpty(SelfSet) => enc.b = <<"[", "]">>

\* A map of three string keys, not in increasing order, was encoded.
C17_Witness ==
    /\ enc.op = "MarshalJSON" /\ enc.err = nil
    /\ ktype = "string" /\ vtype = "string"
    /\ Keys(Self) = <<2, 0, 1>>
    /\ Values(Self)[2] # Values(Self)[3]

\* C18: UnmarshalJSON inserts the decoded pairs with Put in the order of the
\* members in the text: after a successful decode into an empty map Keys()
\* is the member names in the order of the text, a repeated name at the
\* place of its first occurrence with the value of its last.
C18_DecodeOrder ==
    (dec.op = "UnmarshalJSON" /\ dec.from = "text" /\ dec.err = nil) =>
        /\ Keys(dec.o) = FirstOccurrences(KeysOf(dec.src))
        /\ \A i \in 1..Len(Keys(dec.o)) :
              Values(dec.o)[i] = LastValue(dec.src, Keys(dec.o)[i])

\* C19: MarshalJSON of a map whose key type is neither string, nor an
\* integer type, nor text-convertible fails with "invalid key type" and
\* returns no bytes, whatever the map holds.
C19_InvalidKeyType ==
    (enc.op = "MarshalJSON" /\ ktype \notin {"string"} \cup IntTypes \cup TextMarshalers) =>
        /\ enc.err = "invalid key type"
        /\ enc.b = <<>>

\* The error of encoding the i-th entry of the container the way the encode
\* call op does: the key's if its encoder fails (an integer key's text
\* cannot), else the value's; nil if neither fails.
EntryErr(op, kt, vt, kv) ==
    LET k == GoKey(kt, kv.Key)
        v == GoVal(vt, kv.Value)
    IN CASE op = "MarshalJSON" ->
              IF kt \notin IntTypes /\ JsonMarshal(k).err # nil THEN JsonMarshal(k).err
              ELSE JsonMarshal(v).err
         [] op = "Set.MarshalJSON" -> JsonMarshal(k).err
         [] op = "GobEncode" ->
              IF Encode(<<>>, k).err # nil THEN Encode(<<>>, k).err ELSE Encode(<<>>, v).err

\* C20: if encoding one key or value of a map, or one element of a set,
\* fails in the value encoder, the encode call (MarshalJSON, GobEncode)
\* returns that error and no bytes, wherever the failing entry stands, and
\* the container is as it was.
C20_EncodeError ==
    (enc.op \in {"MarshalJSON", "Set.MarshalJSON", "GobEncode"}
     /\ (enc.op = "MarshalJSON" => ktype \in {"string"} \cup IntTypes \cup TextMarshalers)) =>
        LET kvs     == KeyValues(Self)
            failing == {i \in 1..Len(kvs) : EntryErr(enc.op, ktype, vtype, kvs[i]) # nil}
        IN failing # {} =>
              LET first == CHOOSE i \in failing : \A j \in failing : i <= j
              IN /\ enc.err = EntryErr(enc.op, ktype, vtype, kvs[first])
                 /\ enc.b = <<>>
                 /\ Self = enc.o

\* The last of three values is the one json.Marshal fails on.
C20_Witness ==
    /\ enc.op = "MarshalJSON"
    /\ ktype = "string" /\ vtype = "any"
    /\ Values(Self) = <<0, 0, 1>>
    /\ enc.err # nil

\* ------------------------------------ decoding into a container (SpecDecode)
\* The container under test is a Map[ktype, vtype], with vtype struct{} also
\* the map under a Set[ktype].  It was built by NewMap (NewSet) or was never
\* constructed; Put, Remove and Clear are called on it, and the decode
\* methods, with sources written by hand: well-formed ones, ones with a
\* member that does not decode, and ones cut short.
\* Most tokens (values of a gob stream) cut off the end of a source.
MaxCut == 2
\* Most entries the container holds when a decode method is called on it.
MaxTarget == 1
\* Longest element list of a hand-written array text.
MaxElems == 3

\* The value types of the containers decoded into.
DecodeVTypes == {"int", "string", "struct{}"}

\* A name no integer and no point3d is known by; a value text of another
\* type than vt; an element text of another type than t.
BadNameText(kt) == IF kt = "point3d" THEN <<"1", "-", "2">> ELSE <<"x">>
BadValueText(vt) == IF vt = "int" THEN <<"\"", "x", "\"">> ELSE <<"7">>
BadElemText(t) ==
    CASE t = "string" -> <<"7">>
      [] t = "int"    -> <<"\"", "x", "\"">>
      [] OTHER        -> <<"\"", "1", "-", "2", "\"">>

\* The parts of a member that can be written so that they do not decode: a
\* string key takes every name.
BadParts(kt) == IF kt \in {"int", "point3d"} THEN {"key", "value"} ELSE {"value"}

\* s without its last n members.
DropLast(s, n) == SubSeq(s, 1, IF Len(s) > n THEN Len(s) - n ELSE 0)

RECURSIVE Concat(_)
\* The sequences of a sequence, one after the other.
Concat(seqs) == IF seqs = <<>> THEN <<>> ELSE Head(seqs) \o Concat(Tail(seqs))

\* The hand-written object texts for a Map[kt, vt]: the members kvs, of
\* which the one at bad (if not 0) has a key or a value that does not decode;
\* the last cut tokens (braces, names, colons, values, commas) are left out.
ObjectSources(kt, vt) ==
    {[kvs |-> kvs, bad |-> 0, part |-> "none", cut |-> c] :
        kvs \in SourceKVs(kt, vt), c \in 0..MaxCut}
    \cup UNION {{[kvs |-> kvs, bad |-> i, part |-> p, cut |-> 0] :
                    i \in 1..Len(kvs), p \in BadParts(kt)} :
                kvs \in SourceKVs(kt, vt)}

MemberTokens(kt, vt, src, i) ==
    (IF i > 1 THEN << <<",">> >> ELSE <<>>)
    \o << JsonString(IF src.bad = i /\ src.part = "key" THEN BadNameText(kt)
                     ELSE NameText(kt, src.kvs[i].Key)),
          <<":">>,
          IF src.bad = i /\ src.part = "value" THEN BadValueText(vt)
          ELSE ValueText(vt, src.kvs[i].Value) >>

SourceText(kt, vt, src) ==
    Concat(DropLast(<< <<"{">> >>
                    \o Concat([i \in 1..Len(src.kvs) |-> MemberTokens(kt, vt, src, i)])
                    \o << <<"}">> >>,
                    src.cut))

\* The hand-written array texts for a Set[t].
ArraySources(t) ==
    LET lists == UNION {[1..n -> KeysOfType(t)] : n \in 0..MaxElems}
    IN {[elems |-> es, bad |-> 0, cut |-> c] : es \in lists, c \in 0..MaxCut}
       \cup UNION {{[elems |-> es, bad |-> i, cut |-> 0] : i \in 1..Len(es)} : es \in lists}

ElemTokens(t, src, i) ==
    (IF i > 1 THEN << <<",">> >> ELSE <<>>)
    \o << IF src.bad = i THEN BadElemText(t) ELSE ElemText(t, src.elems[i]) >>

ArrayText(t, src) ==
    Concat(DropLast(<< <<"[">> >>
                    \o Concat([i \in 1..Len(src.elems) |-> ElemTokens(t, src, i)])
                    \o << <<"]">> >>,
                    src.cut))

\* The types gob carries, and for a type another one of them.
GobKTypes == {"string", "int", "point3d"}
GobVTypes == {"string", "int"}
OtherType(t) == IF t = "string" THEN "int" ELSE "string"

\* The hand-written gob streams for a Map[kt, vt]: the length and the pairs
\* kvs as a Map[skt, svt] sends them, of types that are the target's but for
\* one at most; the last cut values are left out.
GobSources(kt, vt) ==
    LET senders == {<<kt, vt>>, <<OtherType(kt), vt>>, <<kt, OtherType(vt)>>}
                   \cap (GobKTypes \X GobVTypes)
    IN {[kvs |-> kvs, skt |-> s[1], svt |-> s[2], cut |-> c] :
           kvs \in SourceKVs(kt, vt), s \in senders, c \in 0..MaxCut}

GobStream(src) ==
    DropLast(GobEncodeLoop(src.kvs, 1, Encode(<<>>, [t |-> "int", n |-> Len(src.kvs)]).b,
                           src.skt, src.svt).b,
             src.cut)

InitDecode ==
    /\ callers = NoCallers
    /\ former = NoFormer
    /\ \E o \in {NewMap, ZeroMap} :
          Constructed(o, Call("NewMap", ZeroK, ZeroV, <<>>, 0))
    /\ latest = EmptyLatest /\ order = <<>>
    /\ ktype \in KTypes
    /\ vtype \in DecodeVTypes
    /\ enc = NoEnc
    /\ dec = NoDec

\* A call of Put on the receiver o, its panic included: the key is looked up
\* in o.mp, which a nil map allows, and is not found; o.items.PushBack(key)
\* then dereferences the nil list and the call panics before it stored
\* anything.  On a constructed map the call returns.
PutCall(o, key, value) ==
    IF "nil" \in DOMAIN o.items
    THEN [o |-> o, panic |-> "invalid memory address or nil pointer dereference"]
    ELSE [o |-> Put(o, key, value), panic |-> nil]

\* A Put that panics ends the program; so does a Clear of a map never
\* constructed, which dereferences o.items as well.
DecodePut ==
    /\ \E key \in KeysOfType(ktype), value \in ValuesOfType(vtype) :
          LET r == PutCall(Self, key, value)
          IN r.panic = nil /\ Becomes(r.o)
    /\ dec' = NoDec
    /\ UNCHANGED <<ktype, vtype, enc, callVars, logVars, callers, former, snapVars>>

DecodeRemove ==
    /\ \E key \in KeysOfType(ktype) : Becomes(Remove(Self, key).o)
    /\ dec' = NoDec
    /\ UNCHANGED <<ktype, vtype, enc, callVars, logVars, callers, former, snapVars>>

DecodeClear ==
    /\ Self # ZeroMap
    /\ Becomes(Clear(Self))
    /\ dec' = NoDec
    /\ UNCHANGED <<ktype, vtype, enc, callVars, logVars, callers, former, snapVars>>

\* A decode method is called on the container as the calls so far left it.
DecodeTarget ==
    /\ dec = NoDec
    /\ IF Self = ZeroMap THEN TRUE ELSE MapLen(Self) <= MaxTarget

\* The call returned r.err and left the map r.o; what it was given and the
\* map before it are kept.
DecodeCall(op, src, r) ==
    /\ Becomes(r.o)
    /\ dec' = [op |-> op, src |-> src, pre |-> Self, err |-> r.err]
    /\ UNCHANGED <<ktype, vtype, enc, callVars, logVars, callers, former, snapVars>>

DecodeUnmarshalJSON ==
    /\ DecodeTarget
    /\ \E src \in ObjectSources(ktype, vtype) :
          DecodeCall("UnmarshalJSON", src,
                     UnmarshalJSON(Self, SourceText(ktype, vtype, src), ktype, vtype))

DecodeGobDecode ==
    /\ DecodeTarget
    /\ \E src \in GobSources(ktype, vtype) :
          DecodeCall("GobDecode", src, GobDecode(Self, GobStream(src), ktype, vtype))

\* The set under test: no map is under a set never constructed.
DecodeSelfSet == IF Self = ZeroMap THEN ZeroSet ELSE SelfSet

DecodeSetUnmarshalJSON ==
    /\ DecodeTarget
    /\ vtype = "struct{}"
    /\ \E src \in ArraySources(ktype) :
          LET r == SetUnmarshalJSON(DecodeSelfSet, ArrayText(ktype, src), ktype)
          IN DecodeCall("Set.UnmarshalJSON", src, [o |-> r.s.mp, err |-> r.err])

NextDecode ==
    \/ DecodePut
    \/ DecodeRemove
    \/ DecodeClear
    \/ DecodeUnmarshalJSON
    \/ DecodeGobDecode
    \/ DecodeSetUnmarshalJSON

SpecDecode == InitDecode /\ [][NextDecode]_vars

\* The key types the two type switches of the textual codec accept.
SupportedKeyTypes == {"string"} \cup IntTypes \cup TextMarshalers

\* The members of an object source whose key or value does not decode: the
\* one written so, and every member when K is errKey.
FailingMembers(kt, src) == {i \in 1..Len(src.kvs) : src.bad = i \/ kt = "errKey"}

\* The well-formed object source of the first n members of src.
MembersBefore(src, n) ==
    [kvs |-> SubSeq(src.kvs, 1, n), bad |-> 0, part |-> "none", cut |-> 0]

\* C21: Map.UnmarshalJSON returns an error whenever the source is not a
\* well-formed object, the key type is not supported, or a member's key or
\* value does not decode into K or V; it stops at the failing member: the
\* map is left as the members before that one leave it.
C21_DecodeError ==
    dec.op = "UnmarshalJSON" =>
        LET failing == FailingMembers(ktype, dec.src)
        IN /\ (dec.src.cut > 0 \/ ktype \notin SupportedKeyTypes \/ failing # {}) =>
                 dec.err # nil
           /\ failing # {} =>
                 LET first == CHOOSE i \in failing : \A j \in failing : i <= j
                 IN Self = UnmarshalJSON(dec.pre,
                                         SourceText(ktype, vtype, MembersBefore(dec.src, first - 1)),
                                         ktype, vtype).o

\* The elements of an array source that do not decode: the one written so,
\* and every element when T is errKey.
FailingElems(t, src) == {i \in 1..Len(src.elems) : src.bad = i \/ t = "errKey"}

C23_GobDecodeError ==
    dec.op = "GobDecode" =>
        LET n        == Len(dec.src.kvs)
            short    == dec.src.cut > 0
            mismatch == n > 0 /\ (dec.src.skt # ktype \/ dec.src.svt # vtype)
        IN /\ (short \/ mismatch) => dec.err # nil
           /\ dec.err = nil =>
                 /\ Len(GobStream(dec.src)) = 1 + 2 * n
                 /\ ~mismatch

\* C24: the binary codec is defined for the set as it is for the map:
\* binary-encoding a set built by Add, Remove and Clear succeeds and gives
\* the stream of its elements, from which an empty set decodes to the same
\* Elements().
C24_SetBinaryCodec ==
    enc.op = "Set.GobEncode" =>
        /\ enc.err = nil
        /\ Len(enc.b) >= SetLen(SelfSet)

\* What holds of every map a constructor returned, whatever was called on it
\* since: both fields are set, Len() is the number of indexed keys, the
\* order list holds the indexed keys, each once, and the index entry of a
\* key points to the list element that holds the key.
WellFormed(o) ==
    /\ "nil" \notin DOMAIN o.items
    /\ -1 \notin DOMAIN o.mp
    /\ MapLen(o) = Cardinality(DOMAIN o.mp)
    /\ Len(Keys(o)) = MapLen(o)
    /\ {Keys(o)[i] : i \in 1..Len(Keys(o))} = DOMAIN o.mp
    /\ \A k \in DOMAIN o.mp :
          /\ o.mp[k].elem \in Elems
          /\ o.items.list[o.mp[k].elem]
          /\ o.items.value[o.mp[k].elem] = k

\* What the decode call the state records returns, and the map it leaves,
\* when it is called on the map o.
DecodeOn(o) ==
    CASE dec.op = "UnmarshalJSON" ->
            UnmarshalJSON(o, SourceText(ktype, vtype, dec.src), ktype, vtype)
      [] dec.op = "GobDecode" -> GobDecode(o, GobStream(dec.src), ktype, vtype)
      [] dec.op = "Set.UnmarshalJSON" ->
            LET r == SetUnmarshalJSON([mp |-> o], ArrayText(ktype, dec.src), ktype)
            IN [o |-> r.s.mp, err |-> r.err]

\* The decode calls whose every source of the model decodes to the keys it
\* was written from: GobDecode of a stream that still holds its length (an
\* empty stream decodes as an empty map, see C23), Set.UnmarshalJSON for the
\* element types JSON carries, Map.UnmarshalJSON for the keys known by a text
\* without escapes.
DecodesAsWritten ==
    \/ dec.op = "GobDecode" /\ GobStream(dec.src) # <<>>
    \/ dec.op = "Set.UnmarshalJSON" /\ ktype \in {"string", "int", "point3d"}
    \/ dec.op = "UnmarshalJSON" /\ ktype = "point3d"

\* C25: a decode method called on a container never constructed (Map's
\* UnmarshalJSON and GobDecode, Set's UnmarshalJSON) creates the index and
\* the order list first: it returns what it returns on a container built by
\* NewMap (NewSet) and leaves the same map, the decoded entries in the order
\* of the source, which is well-formed as a constructed map is.
C25_ZeroValueDecode ==
    (dec.op # "none" /\ dec.pre = ZeroMap) =>
        /\ WellFormed(Self)
        /\ dec.err = DecodeOn(NewMap).err
        /\ Self = DecodeOn(NewMap).o
        /\ (dec.err = nil /\ DecodesAsWritten) =>
              Keys(Self) = FirstOccurrences(IF dec.op = "Set.UnmarshalJSON"
                                            THEN dec.src.elems ELSE KeysOf(dec.src.kvs))
        /\ (dec.err = nil /\ DecodesAsWritten /\ dec.op # "Set.UnmarshalJSON") =>
              \A i \in 1..Len(Keys(Self)) :
                  Values(Self)[i] = LastValue(dec.src.kvs, Keys(Self)[i])

\* UnmarshalJSON was called on a Map[point3d, string] never constructed, with
\* two members, the larger key first.
C25_Witness ==
    /\ dec.op = "UnmarshalJSON"
    /\ dec.pre = ZeroMap
    /\ dec.err = nil
    /\ ktype = "point3d" /\ vtype = "string"
    /\ MapLen(Self) = 2
    /\ Keys(Self)[1] > Keys(Self)[2]
    /\ Values(Self)[1] # Values(Self)[2]

\* C26: Put has no failure outcome: in every state of a map, Put(key, value)
\* completes, and right after it ContainsKey(key) is true and Get(key)
\* returns (value, true).
C26_PutCompletes ==
    \A key \in KeysOfType(ktype), value \in ValuesOfType(vtype) :
        LET r == PutCall(Self, key, value)
        IN /\ r.panic = nil
           /\ ContainsKey(r.o, key)
           /\ Get(r.o, key) = <<value, TRUE>>

\* ------------------------------- two goroutines on one map (SpecConc)
\* Two goroutines call Put and Remove on one map built by NewMap.  A step of
\* a goroutine is one statement of the method it is in: a lookup in o.mp, a
\* call on o.items, a store into o.mp or a delete from it; the steps of the
\* two goroutines interleave.  Steps of the two that overlap in time (a torn
\* list, the runtime's "concurrent map writes") add outcomes to the ones
\* here and none under the mutex.  Either every call is made between
\* mu.Lock() and mu.Unlock() of one mutex (locking), or no call is.
Goroutines == {1, 2}

\* The calls one goroutine makes: few enough for every PushBack of the run
\* to find a cell.
MaxCalls == NumElems \div 2

\* A goroutine that is in no call.
Idle == [pc |-> "idle", key |-> ZeroK, value |-> ZeroV, elem |-> 0]

\* Mutant: the mutex does not make a caller wait.
Lock_NoWait(g) == TRUE

\* mu.Lock() before the call: the caller goes on once the mutex is free.
Lock(g) == callers.locking => callers.mu = 0

\* Goroutine g may start a call.
CanCall(g) ==
    /\ ~callers.panicked
    /\ callers.g[g].pc = "idle"
    /\ callers.calls[g] < MaxCalls
    /\ Lock(g)

\* Goroutine g is about to execute the statement pc.
At(g, pc) == ~callers.panicked /\ callers.g[g].pc = pc

\* g has executed a statement and is in the call with the locals loc; it
\* holds the mutex if calls are made under it.
Moves(g, loc) ==
    callers' = [callers EXCEPT !.g[g] = loc,
                               !.mu = IF callers.locking THEN g ELSE 0]

\* g's call returns; mu.Unlock() after it.
Returns(g) ==
    callers' = [callers EXCEPT !.g[g] = Idle, !.mu = 0, !.calls[g] = @ + 1]

\* The list elements something still points to: the garbage collector
\* frees none of them, so no new element gets the address of one.
Referenced ==
    ({mp[k].elem : k \in DOMAIN mp} \cup {callers.g[g].elem : g \in Goroutines})
        \cap Elems

\* o.items.PushBack(key), the new element at an address nothing points to.
ConcPushBack(l, v) ==
    LET pinned == [l EXCEPT !.list = [n \in Elems |-> l.list[n] \/ n \in Referenced]]
        r      == ListPushBack(pinned, v)
    IN [l |-> [r.l EXCEPT !.list = [n \in Elems |-> n = r.e \/ l.list[n]]],
        e |-> r.e]

InitConc ==
    /\ Constructed(NewMap, Call("NewMap", ZeroK, ZeroV, <<>>, 0))
    /\ latest = EmptyLatest /\ order = <<>>
    /\ NoCodec("int")
    /\ former = NoFormer
    /\ \E locking \in BOOLEAN :
          callers = [locking  |-> locking,
                     mu       |-> 0,
                     g        |-> [g \in Goroutines |-> Idle],
                     calls    |-> [g \in Goroutines |-> 0],
                     panicked |-> FALSE]

\* Put, line 67: if _, ok := o.mp[key]; !ok
ConcPutLookup ==
    \E g \in Goroutines, key \in K, value \in V :
        /\ CanCall(g)
        /\ Moves(g, [pc    |-> IF key \in DOMAIN mp THEN "Put.update" ELSE "Put.PushBack",
                     key   |-> key,
                     value |-> value,
                     elem  |-> 0])
        /\ UNCHANGED <<mp, items, callVars, logVars, snapVars, codecVars, former>>

\* Put, line 68: e := o.items.PushBack(key)
ConcPutPushBack ==
    \E g \in Goroutines :
        /\ At(g, "Put.PushBack")
        /\ LET r == ConcPushBack(items, callers.g[g].key)
           IN /\ items' = r.l
              /\ Moves(g, [callers.g[g] EXCEPT !.pc = "Put.store", !.elem = r.e])
        /\ UNCHANGED <<mp, callVars, logVars, snapVars, codecVars, former>>

\* Put, line 69: o.mp[key] = &valuePair[V]{elem: e, value: value}
ConcPutStore ==
    \E g \in Goroutines :
        /\ At(g, "Put.store")
        /\ mp' = MpStore(mp, callers.g[g].key, callers.g[g].elem, callers.g[g].value)
        /\ Returns(g)
        /\ UNCHANGED <<items, callVars, logVars, snapVars, codecVars, former>>

\* Put, line 71: o.mp[key].value = value.  The key is looked up again; if it
\* has been deleted since line 67, o.mp[key] is nil and the store panics.
ConcPutUpdate ==
    \E g \in Goroutines :
        /\ At(g, "Put.update")
        /\ IF callers.g[g].key \in DOMAIN mp
           THEN /\ mp' = [mp EXCEPT ![callers.g[g].key].value = callers.g[g].value]
                /\ Returns(g)
           ELSE /\ UNCHANGED mp
                /\ callers' = [callers EXCEPT !.panicked = TRUE]
        /\ UNCHANGED <<items, callVars, logVars, snapVars, codecVars, former>>

\* Remove, line 103: if vp, ok := o.mp[key]; ok; for an absent key the call
\* returns the zero value.
ConcRemoveLookup ==
    \E g \in Goroutines, key \in K :
        /\ CanCall(g)
        /\ IF key \in DOMAIN mp
           THEN Moves(g, [pc    |-> "Remove.unlink",
                          key   |-> key,
                          value |-> mp[key].value,
                          elem  |-> mp[key].elem])
           ELSE Returns(g)
        /\ UNCHANGED <<mp, items, callVars, logVars, snapVars, codecVars, former>>

\* Remove, line 105: o.items.Remove(vp.elem)
ConcRemoveUnlink ==
    \E g \in Goroutines :
        /\ At(g, "Remove.unlink")
        /\ items' = ListRemove(items, callers.g[g].elem)
        /\ Moves(g, [callers.g[g] EXCEPT !.pc = "Remove.delete", !.elem = 0])
        /\ UNCHANGED <<mp, callVars, logVars, snapVars, codecVars, former>>

\* Remove, lines 106-107: delete(o.mp, key); return value
ConcRemoveDelete ==
    \E g \in Goroutines :
        /\ At(g, "Remove.delete")
        /\ mp' = MpDelete(mp, callers.g[g].key)
        /\ Returns(g)
        /\ UNCHANGED <<items, callVars, logVars, snapVars, codecVars, former>>

NextConc ==
    \/ ConcPutLookup
    \/ ConcPutPushBack
    \/ ConcPutStore
    \/ ConcPutUpdate
    \/ ConcRemoveLookup
    \/ ConcRemoveUnlink
    \/ ConcRemoveDelete

SpecConc == InitConc /\ [][NextConc]_vars

\* No goroutine is inside a call.
Quiescent == \A g \in Goroutines : callers.g[g].pc = "idle"

\* Some key is in the order list twice.
DuplicateKey(o) ==
    \E i, j \in 1..Len(Keys(o)) : i # j /\ Keys(o)[i] = Keys(o)[j]

\* C27: the container is not safe for unsynchronized concurrent mutation.
\* When every call of the two goroutines runs under one mutex, the map is
\* well-formed whenever the mutex is free, and no call panics; without the
\* mutex a state with a key twice in the order list and Len() different from
\* the number of indexed keys is reached (C27_Witness).
C27_LockedWellFormed ==
    (callers # NoCallers /\ callers.locking) =>
        /\ ~callers.panicked
        /\ callers.mu = 0 => (Quiescent /\ WellFormed(Self))
        /\ \A g \in Goroutines : callers.g[g].pc # "idle" => callers.mu = g

C27_Witness ==
    /\ callers # NoCallers
    /\ ~callers.locking
    /\ Quiescent
    /\ DuplicateKey(Self)
    /\ MapLen(Self) # Cardinality(DOMAIN mp)

\* C28: String() of a map is map{k1:v1 k2:v2 ...}, the pairs in insertion
\* order with one space between them, and map{} for an empty map; String()
\* of a set is set{e1 e2 ...} and set{} likewise; keys, values and elements
\* are in their default formatting.
C28_StringFormat ==
    /\ enc.op = "String" =>
          LET kvs == KeyValues(Self)
          IN enc.b = <<"m", "a", "p", "{">>
                     \o Join([i \in 1..Len(kvs) |->
                                 Sprint(GoKey(ktype, kvs[i].Key)) \o <<":">>
                                 \o Sprint(GoVal(vtype, kvs[i].Value))], " ")
                     \o <<"}">>
    /\ enc.op = "Set.String" =>
          LET elems == Keys(Self)
          IN enc.b = <<"s", "e", "t", "{">>
                     \o Join([i \in 1..Len(elems) |-> Sprint(GoKey(ktype, elems[i]))], " ")
                     \o <<"}">>

\* String() of a map of two int keys, the greater one inserted first:
\* map{1:10 -3:0}.
C28_Witness ==
    /\ enc.op = "String"
    /\ ktype = "int" /\ vtype = "int"
    /\ KeyValues(Self) = <<[Key |-> 1, Value |-> 1], [Key |-> 2, Value |-> 0]>>
    /\ enc.b = <<"m", "a", "p", "{", "1", ":", "1", "0", " ", "-", "3", ":", "0", "}">>

\* C29: in every state reached by Put, Remove, Clear and the decode methods
\* the index and the order list hold the same keys, no key is in the list
\* twice, and the element an index entry points to is the live list element
\* holding the entry's key; no call replaces the element of a key that is
\* present before and after it.
C29_IndexMatchesList ==
    /\ [](Self # ZeroMap => WellFormed(Self))
    /\ [][\A key \in (DOMAIN mp \cap DOMAIN mp') \ {-1} :
              mp'[key].elem = mp[key].elem]_vars

\* A decode overwrote the value of a key that was present and inserted
\* another key behind it.
C29_Witness ==
    /\ dec.op \in {"UnmarshalJSON", "GobDecode"}
    /\ dec.pre # ZeroMap
    /\ MapLen(Self) > MapLen(dec.pre)
    /\ \E key \in DOMAIN dec.pre.mp :
          /\ key \in DOMAIN mp
          /\ mp[key].value # dec.pre.mp[key].value
          /\ mp[key].elem = dec.pre.mp[key].elem
          /\ Keys(Self)[1] = key

\* ---------------------------------- queries and encoders (SpecFrame)
\* The calls of Spec on a map built by NewMap, and String, MarshalJSON and
\* GobEncode with them.
CallString == Query("String", ZeroK, ZeroV, String(Self, ktype, vtype))

CallMarshalJSON == Query("MarshalJSON", ZeroK, ZeroV, MarshalJSON(Self, ktype, vtype))

CallGobEncode == Query("GobEncode", ZeroK, ZeroV, GobEncode(Self, ktype, vtype))

NextFrame ==
    \/ CallPut
    \/ CallRemove
    \/ CallClear
    \/ CallGet
    \/ CallGetOrDefault
    \/ CallContainsKey
    \/ CallLen
    \/ CallIsEmpty
    \/ CallKeys
    \/ CallValues
    \/ CallKeyValues
    \/ CallString
    \/ CallMarshalJSON
    \/ CallGobEncode

SpecFrame == InitNewMap /\ [][NextFrame]_vars

\* The query and encode operations of the map.
ReadingOps ==
    {"Get", "GetOrDefault", "ContainsKey", "Len", "IsEmpty", "Keys", "Values",
     "KeyValues", "String", "MarshalJSON", "GobEncode"}

\* C30: Get, GetOrDefault, ContainsKey, Len, IsEmpty, Keys, Values,
\* KeyValues, String, MarshalJSON and GobEncode leave the contents and the
\* insertion order of the map as they were; a Get or GetOrDefault of a
\* missing key inserts neither the key nor the default.
C30_ReadsChangeNothing ==
    last.op \in ReadingOps =>
        /\ Self = pre
        /\ KeyValues(Self) = KeyValues(pre)
        /\ (last.op \in {"Get", "GetOrDefault"} /\ last.key \notin DOMAIN pre.mp) =>
              /\ last.key \notin DOMAIN mp
              /\ MapLen(Self) = MapLen(pre)

\* GetOrDefault of a missing key returned the default; the map holds its two
\* keys as before.
C30_Witness ==
    /\ last.op = "GetOrDefault"
    /\ last.key \notin DOMAIN pre.mp
    /\ last.ret = last.value /\ last.value # ZeroV
    /\ MapLen(Self) = 2
    /\ Keys(Self)[1] > Keys(Self)[2]

\* ------------------------------- keys removed and put again (SpecReinsert)
\* Put and Remove are called on a map built by NewMap; for every key removed
\* the place it had in Keys() is kept.
IndexOf(keys, key) == CHOOSE i \in 1..Len(keys) : keys[i] = key

ReinsertPut ==
    \E key \in K, value \in V :
        /\ Becomes(Put(Self, key, value))
        /\ last' = Call("Put", key, value, <<>>, 0)
        /\ pre' = Self
        /\ UNCHANGED <<pre2, latest, order, logVars, callers, former, snapVars, codecVars>>

ReinsertRemove ==
    \E key \in K :
        LET r == Remove(Self, key)
        IN /\ Becomes(r.o)
           /\ last' = Call("Remove", key, ZeroV, <<>>, r.ret)
           /\ pre' = Self
           /\ former' = IF key \in DOMAIN mp
                        THEN [k \in DOMAIN former \cup {key} |->
                                 IF k = key THEN IndexOf(Keys(Self), key) ELSE former[k]]
                        ELSE former
           /\ UNCHANGED <<pre2, latest, order, logVars, callers, snapVars, codecVars>>

NextReinsert == ReinsertPut \/ ReinsertRemove

SpecReinsert == InitNewMap /\ [][NextReinsert]_vars

\* C31: removing a key ends its position: a Put of a key that was removed
\* and is absent places the key at the back of Keys(), behind every key
\* present at the time of the Put, wherever the key was before its removal.
C31_ReinsertAtBack ==
    (last.op = "Put" /\ last.key \in DOMAIN former /\ last.key \notin DOMAIN pre.mp) =>
        /\ Keys(Self) = Append(Keys(pre), last.key)
        /\ \A i \in 1..Len(Keys(pre)) : Keys(pre)[i] # last.key
        /\ Get(Self, last.key) = <<last.value, TRUE>>

\* A key removed from the front of the map was put again behind two keys.
C31_Witness ==
    /\ last.op = "Put"
    /\ last.key \in DOMAIN former
    /\ last.key \notin DOMAIN pre.mp
    /\ former[last.key] = 1
    /\ MapLen(pre) = 2
    /\ Keys(Self)[3] = last.key

\* -------------------------------- a visitor that mutates (SpecVisit)
\* ForEach is called on a map built by NewMap, Put, Remove and Clear, with a
\* visitor that calls Put, Remove or Clear on the map it visits.
Mutations ==
    {[op |-> "none", key |-> ZeroK, value |-> ZeroV],
     [op |-> "Clear", key |-> ZeroK, value |-> ZeroV]}
    \cup {[op |-> "Put", key |-> k, value |-> v] : k \in K, v \in V}
    \cup {[op |-> "Remove", key |-> k, value |-> ZeroV] : k \in K}

\* Of a Put, a Remove or a Clear only the name is kept.
VisitPut ==
    \E key \in K, value \in V :
        /\ Becomes(Put(Self, key, value))
        /\ last' = Call("Put", ZeroK, ZeroV, <<>>, 0)
        /\ pre' = Self
        /\ UNCHANGED <<pre2, latest, order, logVars, callers, former, snapVars, codecVars>>

VisitRemove ==
    \E key \in K :
        /\ Becomes(Remove(Self, key).o)
        /\ last' = Call("Remove", ZeroK, ZeroV, <<>>, 0)
        /\ pre' = Self
        /\ UNCHANGED <<pre2, latest, order, logVars, callers, former, snapVars, codecVars>>

VisitClear ==
    /\ Becomes(Clear(Self))
    /\ last' = Call("Clear", ZeroK, ZeroV, <<>>, 0)
    /\ pre' = Self
    /\ UNCHANGED <<pre2, latest, order, logVars, callers, former, snapVars, codecVars>>

\* ForEach is called on the map as Put, Remove and Clear left it; what the
\* visitor did in each of its calls and the calls made are kept.
VisitForEach ==
    /\ last.op # "ForEach"
    /\ \E f \in [1..MapLen(Self) -> Mutations] :
          LET r == ForEachVisit(Self, f)
          IN /\ Becomes(r.o)
             /\ last' = Call("ForEach", ZeroK, ZeroV, f, r.calls)
             /\ pre' = Self
             /\ UNCHANGED <<pre2, latest, order, logVars, callers, former, snapVars, codecVars>>

NextVisit == VisitPut \/ VisitRemove \/ VisitClear \/ VisitForEach

SpecVisit == InitNewMap /\ [][NextVisit]_vars

RECURSIVE Applied(_, _)
\* The map o after the mutations of the sequence f, made one after another.
Applied(o, f) ==
    IF f = <<>> THEN o
    ELSE Visit(Applied(o, SubSeq(f, 1, Len(f) - 1)), f[Len(f)])

\* C32: ForEach iterates over a snapshot taken when it is called: a visitor
\* that calls Put, Remove or Clear on the map is still called once for each
\* entry present at the start, with the value of the start, in the order of
\* the start, and for no key added meanwhile; its mutations take effect.
C32_ForEachSnapshot ==
    last.op = "ForEach" =>
        /\ last.ret = PairsOf(KeyValues(pre))
        /\ Len(last.ret) = MapLen(pre)
        /\ Self = Applied(pre, last.kvs)
        /\ WellFormed(Self)

\* The visitor removed the second key in its first call and put a new key in
\* its second: it was called for the two keys of the start, the removed one
\* included, and not for the new one.
C32_Witness ==
    /\ last.op = "ForEach"
    /\ MapLen(pre) = 2
    /\ last.kvs[1].op = "Remove" /\ last.kvs[1].key = Keys(pre)[2]
    /\ last.kvs[2].op = "Put" /\ last.kvs[2].key \notin DOMAIN pre.mp
    /\ Len(last.ret) = 2
    /\ last.ret[2][1] = Keys(pre)[2]
    /\ Keys(Self) = <<Keys(pre)[1], last.kvs[2].key>>

\* The keys of the source of the decode call made last, as written.
SourceKeys ==
    IF dec.op = "Set.UnmarshalJSON" THEN dec.src.elems ELSE KeysOf(dec.src.kvs)

\* C33: decoding into a container that holds entries does not clear it:
\* the entries it held stay where they were, also when the call fails; after
\* a successful call an entry whose key is not in the source has its value
\* still, a key of the source that was present has the value of the source at
\* its old place, and the new keys of the source follow at the back in the
\* order of the source.
C33_DecodeKeepsEntries ==
    (dec.op # "none" /\ dec.pre # ZeroMap /\ MapLen(dec.pre) > 0) =>
        /\ Len(Keys(Self)) >= MapLen(dec.pre)
        /\ SubSeq(Keys(Self), 1, MapLen(dec.pre)) = Keys(dec.pre)
        /\ (dec.err = nil /\ DecodesAsWritten) =>
              /\ Keys(Self) =
                    Keys(dec.pre) \o
                    SelectSeq(FirstOccurrences(SourceKeys),
                              LAMBDA k : k \notin DOMAIN dec.pre.mp)
              /\ \A i \in 1..Len(Keys(Self)) :
                    LET k == Keys(Self)[i]
                    IN IF \E j \in 1..Len(SourceKeys) : SourceKeys[j] = k
                       THEN dec.op # "Set.UnmarshalJSON" =>
                               Values(Self)[i] = LastValue(dec.src.kvs, k)
                       ELSE Values(Self)[i] = Values(dec.pre)[i]

\* A map holding one key was given an object of two members, a new key first
\* and the key it held second, with another value: the key it held is still
\* first and has the new value, the new key is behind it.
C33_Witness ==
    /\ dec.op = "UnmarshalJSON"
    /\ dec.err = nil
    /\ ktype = "point3d"
    /\ dec.pre # ZeroMap
    /\ MapLen(dec.pre) = 1
    /\ Len(dec.src.kvs) = 2
    /\ dec.src.kvs[2].Key = Keys(dec.pre)[1]
    /\ dec.src.kvs[1].Key # Keys(dec.pre)[1]
    /\ dec.src.kvs[2].Value # Values(dec.pre)[1]
    /\ Keys(Self) = <<dec.src.kvs[2].Key, dec.src.kvs[1].Key>>
    /\ Values(Self)[1] = dec.src.kvs[2].Value

\* The pairs of the source that come before the place where the decode call
\* made last has to fail: before the member whose key or value is written
\* not to decode; before the first member, when no key of the source's type
\* decodes into K or no value into V; else the members and pairs that are
\* whole in a source cut short (an object text is its brace, then three
\* tokens per member and a comma between members; a stream is the length,
\* then two values per pair).
PairsBeforeFailure ==
    LET m == Len(dec.src.kvs)
        c == dec.src.cut
    IN IF dec.op = "GobDecode"
       THEN IF dec.src.skt # ktype \/ dec.src.svt # vtype THEN 0
            ELSE (2 * m - c) \div 2
       ELSE IF ktype # "point3d" THEN 0
            ELSE IF dec.src.bad > 0 THEN dec.src.bad - 1
            ELSE IF 4 * m + 1 - c < 0 THEN 0 ELSE (4 * m + 1 - c) \div 4

\* C34: a failed map decode is not rolled back and leaves a well-formed
\* prefix: when Map.UnmarshalJSON or Map.GobDecode fails at the i-th pair of
\* the source, the map is the map of before with the first i-1 pairs put in
\* source order and nothing else, and it is well-formed.
C34_FailedDecodePrefix ==
    (dec.op \in {"UnmarshalJSON", "GobDecode"} /\ dec.err # nil) =>
        LET before == IF dec.pre = ZeroMap THEN NewMap ELSE dec.pre
        IN /\ WellFormed(Self)
           /\ (dec.op = "GobDecode" \/ ktype # "string") =>
                 Self = PutAll(before, SubSeq(dec.src.kvs, 1, PairsBeforeFailure))

\* UnmarshalJSON failed at the value of the second of two members: the first
\* member is in the map, behind the key the map held.
C34_Witness ==
    /\ dec.op = "UnmarshalJSON"
    /\ dec.err # nil
    /\ ktype = "point3d"
    /\ dec.src.bad = 2 /\ dec.src.part = "value"
    /\ dec.pre # ZeroMap
    /\ MapLen(dec.pre) = 1
    /\ dec.src.kvs[1].Key # Keys(dec.pre)[1]
    /\ dec.src.kvs[2].Key # dec.src.kvs[1].Key
    /\ Keys(Self) = <<Keys(dec.pre)[1], dec.src.kvs[1].Key>>

\* The elements of the array source of the decode call made last that are
\* written to decode, in the order of the source.
DecodableElems ==
    LET n   == Len(dec.src.elems)
        idx == SelectSeq([i \in 1..n |-> i],
                         LAMBDA i : i \notin FailingElems(ktype, dec.src))
    IN [j \in 1..Len(idx) |-> dec.src.elems[idx[j]]]

\* C35: Set.UnmarshalJSON does not stop at the first element that does not
\* decode: given a well-formed array with such an element it returns an
\* error, and the set holds, behind what it held, exactly the elements that
\* decode, in source order, those behind the failing one included.
C35_SetDecodeContinues ==
    (/\ dec.op = "Set.UnmarshalJSON"
     /\ dec.src.cut = 0
     /\ FailingElems(ktype, dec.src) # {}
     /\ ktype \in {"string", "int", "point3d", "errKey"}) =>
        LET before == IF dec.pre = ZeroMap THEN NewMap ELSE dec.pre
        IN /\ dec.err # nil
           /\ WellFormed(Self)
           /\ Keys(Self) =
                 Keys(before) \o SelectSeq(FirstOccurrences(DecodableElems),
                                           LAMBDA k : k \notin DOMAIN before.mp)

\* The first of three elements did not decode: the second and the third are
\* in the set, in the order of the source.
C35_Witness ==
    /\ dec.op = "Set.UnmarshalJSON"
    /\ dec.err # nil
    /\ ktype = "string"
    /\ dec.src.cut = 0 /\ dec.src.bad = 1
    /\ Len(dec.src.elems) = 3
    /\ dec.src.elems[2] > dec.src.elems[3]
    /\ dec.pre = NewMap
    /\ Keys(Self) = <<dec.src.elems[2], dec.src.elems[3]>>

====
